---- MODULE Spec2Model ----
(***************************************************************************)
(* The Manifests asset of pkg/asset/manifests/operators.go: Generate,      *)
(* Load, Files and their helpers.  A Go string or []byte is a sequence of  *)
(* one-character strings, so that path arithmetic, sorting, encoding and   *)
(* serialization are computed character by character.                      *)
(***************************************************************************)
EXTENDS Integers, Sequences, FiniteSets, TLC

\* ------------------------------------------------------------------ bounds
MaxFiles == 2
MaxReplicas == 11
MaxIndent == 3
MaxIndentLen == 4

\* ------------------------------------------------------- strings and bytes
\* The printable ASCII characters in code order: 32 (space) to 95, and 97 to 126.
PrintableLow == <<" ","!","\"","#","$","%","&","'","(",")","*","+",",","-",".","/","0","1","2","3","4","5","6","7","8","9",":",";","<","=",">","?","@","A","B","C","D","E","F","G","H","I","J","K","L","M","N","O","P","Q","R","S","T","U","V","W","X","Y","Z","[","\\","]","^","_">>

PrintableHigh == <<"a","b","c","d","e","f","g","h","i","j","k","l","m","n","o","p","q","r","s","t","u","v","w","x","y","z","{","|","}","~">>

Chars == {PrintableLow[i] : i \in 1..Len(PrintableLow)}
             \cup {PrintableHigh[i] : i \in 1..Len(PrintableHigh)} \cup {"\n"}

\* The byte value of a character.
OrdTable ==
    [c \in Chars |->
        IF c = "\n" THEN 10
        ELSE IF \E i \in 1..Len(PrintableLow) : PrintableLow[i] = c
             THEN 31 + (CHOOSE i \in 1..Len(PrintableLow) : PrintableLow[i] = c)
             ELSE 96 + (CHOOSE i \in 1..Len(PrintableHigh) : PrintableHigh[i] = c)]

Ord(c) == OrdTable[c]

Min(S) == CHOOSE x \in S : \A y \in S : x <= y

\* Go's < on strings: byte-wise lexicographic order.
StrLess(a, b) ==
    LET n == IF Len(a) < Len(b) THEN Len(a) ELSE Len(b)
        diffs == {i \in 1..n : a[i] # b[i]}
    IN  IF diffs = {} THEN Len(a) < Len(b)
        ELSE Ord(a[Min(diffs)]) < Ord(b[Min(diffs)])

HasPrefix(s, p) == Len(p) <= Len(s) /\ SubSeq(s, 1, Len(p)) = p

HasSuffix(s, p) == Len(p) <= Len(s) /\ SubSeq(s, Len(s) - Len(p) + 1, Len(s)) = p

\* The positions at which sub occurs in s.
Occurrences(s, sub) ==
    {i \in 1..(Len(s) - Len(sub) + 1) : SubSeq(s, i, i + Len(sub) - 1) = sub}

Contains(s, sub) == Occurrences(s, sub) # {}

RECURSIVE Concat(_)
Concat(ss) ==
    IF ss = <<>> THEN <<>>
    ELSE IF Len(ss) = 1 THEN ss[1]
    ELSE Concat(SubSeq(ss, 1, Len(ss) \div 2)) \o Concat(SubSeq(ss, Len(ss) \div 2 + 1, Len(ss)))

RECURSIVE JoinStrings(_, _)
JoinStrings(ss, sep) ==
    IF ss = <<>> THEN <<>>
    ELSE IF Len(ss) = 1 THEN ss[1]
    ELSE ss[1] \o sep \o JoinStrings(Tail(ss), sep)

\* strings.Split(s, sep) for a one-character separator.
RECURSIVE SplitOn(_, _)
SplitOn(s, sep) ==
    LET at == {i \in 1..Len(s) : s[i] = sep}
    IN  IF at = {} THEN <<s>>
        ELSE <<SubSeq(s, 1, Min(at) - 1)>> \o SplitOn(SubSeq(s, Min(at) + 1, Len(s)), sep)

\* strings.Repeat(s, count): panics on a negative count.
stringsRepeat(s, count) ==
    [panic |-> count < 0, out |-> Concat([i \in 1..count |-> s])]

stringsTrimSuffix(s, suffix) ==
    IF HasSuffix(s, suffix) THEN SubSeq(s, 1, Len(s) - Len(suffix)) ELSE s

\* strconv-style decimal rendering of a non-negative integer (the %d verb).
RECURSIVE Itoa(_)
Itoa(n) ==
    LET digit == <<PrintableLow[17 + (n % 10)]>>
    IN  IF n < 10 THEN digit ELSE Itoa(n \div 10) \o digit

\* strconv.FormatInt(n, 10).
FormatInt(n) == IF n < 0 THEN <<"-">> \o Itoa(0 - n) ELSE Itoa(n)

Max(S) == CHOOSE x \in S : \A y \in S : y <= x

Digits == {<<"0","1","2","3","4","5","6","7","8","9">>[i] : i \in 1..10}

Letters == {c \in Chars : c # "\n" /\ (Ord(c) \in 65..90 \/ Ord(c) \in 97..122)}

\* ASCII lower case of a character and of a string.
LowerChar(c) == IF c # "\n" /\ Ord(c) \in 65..90 THEN PrintableHigh[Ord(c) - 64] ELSE c

Lower(s) == [i \in 1..Len(s) |-> LowerChar(s[i])]

IsDigits(s) == s # <<>> /\ \A i \in 1..Len(s) : s[i] \in Digits

\* base64.StdEncoding.EncodeToString: 3 bytes to 4 characters, '=' padding.
Base64Alphabet == <<"A","B","C","D","E","F","G","H","I","J","K","L","M","N","O","P","Q","R","S","T","U","V","W","X","Y","Z","a","b","c","d","e","f","g","h","i","j","k","l","m","n","o","p","q","r","s","t","u","v","w","x","y","z","0","1","2","3","4","5","6","7","8","9","+","/">>

B64Char(v) == Base64Alphabet[v + 1]

RECURSIVE base64Encode(_)
base64Encode(src) ==
    IF Len(src) = 0 THEN <<>>
    ELSE IF Len(src) = 1 THEN
        LET v == Ord(src[1]) * 65536
        IN  <<B64Char(v \div 262144), B64Char((v \div 4096) % 64), "=", "=">>
    ELSE IF Len(src) = 2 THEN
        LET v == Ord(src[1]) * 65536 + Ord(src[2]) * 256
        IN  <<B64Char(v \div 262144), B64Char((v \div 4096) % 64),
              B64Char((v \div 64) % 64), "=">>
    ELSE
        LET v == Ord(src[1]) * 65536 + Ord(src[2]) * 256 + Ord(src[3])
        IN  <<B64Char(v \div 262144), B64Char((v \div 4096) % 64),
              B64Char((v \div 64) % 64), B64Char(v % 64)>>
            \o base64Encode(SubSeq(src, 4, Len(src)))

\* ------------------------------------------------------------------- paths
\* filepath.Clean on a slash-separated path.
RECURSIVE CleanComponents(_, _, _)
CleanComponents(comps, out, rooted) ==
    IF comps = <<>> THEN out
    ELSE LET c == Head(comps)
             rest == Tail(comps)
         IN  IF c = <<>> \/ c = <<".">> THEN CleanComponents(rest, out, rooted)
             ELSE IF c = <<".",".">> THEN
                 IF out # <<>> /\ out[Len(out)] # <<".",".">>
                 THEN CleanComponents(rest, SubSeq(out, 1, Len(out) - 1), rooted)
                 ELSE IF rooted THEN CleanComponents(rest, out, rooted)
                 ELSE CleanComponents(rest, Append(out, c), rooted)
             ELSE CleanComponents(rest, Append(out, c), rooted)

filepathClean(path) ==
    IF path = <<>> THEN <<".">>
    ELSE LET rooted == path[1] = "/"
             body == JoinStrings(CleanComponents(SplitOn(path, "/"), <<>>, rooted), <<"/">>)
         IN  IF rooted THEN <<"/">> \o body
             ELSE IF body = <<>> THEN <<".">> ELSE body

\* filepath.Join(a, b): empty elements are ignored, the result is cleaned.
filepathJoin(a, b) ==
    IF a = <<>> /\ b = <<>> THEN <<>>
    ELSE IF a = <<>> THEN filepathClean(b)
    ELSE IF b = <<>> THEN filepathClean(a)
    ELSE filepathClean(a \o <<"/">> \o b)

\* filepath.Base: the last element of the path, trailing slashes removed.
RECURSIVE StripTrailingSlashes(_)
StripTrailingSlashes(p) ==
    IF p # <<>> /\ p[Len(p)] = "/" THEN StripTrailingSlashes(SubSeq(p, 1, Len(p) - 1))
    ELSE p

filepathBase(path) ==
    IF path = <<>> THEN <<".">>
    ELSE LET p == StripTrailingSlashes(path)
             at == {i \in 1..Len(p) : p[i] = "/"}
             last == IF at = {} THEN p
                     ELSE SubSeq(p, (CHOOSE i \in at : \A j \in at : j <= i) + 1, Len(p))
         IN  IF last = <<>> THEN <<"/">> ELSE last

manifestDir == <<"m","a","n","i","f","e","s","t","s">>

kubeSysConfigPath == filepathJoin(manifestDir, <<"c","l","u","s","t","e","r","-","c","o","n","f","i","g",".","y","a","m","l">>)

\* ------------------------------------------------------------------ indent
indent_NoSpaces(indention, v) ==
    [panic |-> stringsRepeat(<<" ">>, indention).panic, out |-> v]

indent_FirstLineToo(indention, v) ==
    LET rep == stringsRepeat(<<" ">>, indention)
    IN  [panic |-> rep.panic,
         out |-> IF rep.panic THEN <<>>
                 ELSE rep.out \o Concat([i \in 1..Len(v) |->
                                            IF v[i] = "\n" THEN <<"\n">> \o rep.out
                                            ELSE <<v[i]>>])]

\* indent: strings.Replace(v, "\n", "\n" + Repeat(" ", indention), -1).  The
\* repeat is evaluated first, so a negative width panics whatever v is.
indent(indention, v) ==
    LET rep == stringsRepeat(<<" ">>, indention)
    IN  [panic |-> rep.panic,
         out |-> IF rep.panic THEN <<>>
                 ELSE Concat([i \in 1..Len(v) |->
                                IF v[i] = "\n" THEN <<"\n">> \o rep.out ELSE <<v[i]>>])]

\* asset.SortFiles: the list sorted by Filename.  The sort promises no
\* order between two files of one name, so the result is any arrangement
\* of the files in which no name comes before a smaller one: the first
\* file is any of those with the least name, and so on.
LeastNamed(files) ==
    {i \in 1..Len(files) :
        \A j \in 1..Len(files) : ~StrLess(files[j].Filename, files[i].Filename)}

Without(files, i) == SubSeq(files, 1, i - 1) \o SubSeq(files, i + 1, Len(files))

RECURSIVE SortFiles(_)
SortFiles(files) ==
    IF files = <<>> THEN {<<>>}
    ELSE UNION {{<<files[i]>> \o rest : rest \in SortFiles(Without(files, i))}
                : i \in LeastNamed(files)}
\* -------------------------------------------------------------------- YAML
\* github.com/ghodss/yaml over gopkg.in/yaml.v2 and encoding/json, on the
\* documents this file reads and writes.  A YAML node is a record tagged t:
\* a string, null, a boolean, an integer, a float (its value is not
\* computed), a mapping (entries of key node and value node, in document
\* order) or a sequence.  The tag "unmodelled" marks a scalar whose value the
\* libraries compute in a way this module does not follow.
StrNode(s) == [t |-> "str", s |-> s]

NullNode == [t |-> "null"]

BoolNode(b) == [t |-> "bool", b |-> b]

IntNode(i) == [t |-> "int", i |-> i]

FloatNode == [t |-> "float"]

MapNode(entries) == [t |-> "map", m |-> entries]

SeqNode(items) == [t |-> "seq", q |-> items]

UnmodelledNode == [t |-> "unmodelled"]

IsScalar(n) == n.t \notin {"map", "seq"}

\* The emitter's indentation (best_indent is 2 per level).
Spaces(n) == [i \in 1..n |-> " "]

LeadingSpaces(line) ==
    IF \A i \in 1..Len(line) : line[i] = " " THEN Len(line)
    ELSE Min({i \in 1..Len(line) : line[i] # " "}) - 1

TrimLeft(s) == SubSeq(s, LeadingSpaces(s) + 1, Len(s))

TrimRight(s) ==
    IF \A i \in 1..Len(s) : s[i] = " " THEN <<>>
    ELSE SubSeq(s, 1, Max({i \in 1..Len(s) : s[i] # " "}))

\* The lines of a text; a final line break closes the last line.
Lines(text) ==
    IF text = <<>> THEN <<>>
    ELSE IF text[Len(text)] = "\n" THEN SplitOn(SubSeq(text, 1, Len(text) - 1), "\n")
    ELSE SplitOn(text, "\n")

\* ------------------------------------------------- resolving plain scalars
\* resolve.go: the implicit tag of a plain scalar.
NullWords == {<<"~">>, <<"n","u","l","l">>, <<"N","u","l","l">>, <<"N","U","L","L">>}

TrueWords == {<<"y">>, <<"Y">>, <<"y","e","s">>, <<"Y","e","s">>, <<"Y","E","S">>, <<"o","n">>, <<"O","n">>, <<"O","N">>,
              <<"t","r","u","e">>, <<"T","r","u","e">>, <<"T","R","U","E">>}

FalseWords == {<<"n">>, <<"N">>, <<"n","o">>, <<"N","o">>, <<"N","O">>, <<"o","f","f">>, <<"O","f","f">>, <<"O","F","F">>,
               <<"f","a","l","s","e">>, <<"F","a","l","s","e">>, <<"F","A","L","S","E">>}

FloatWords == {<<".","n","a","n">>, <<".","N","a","N">>, <<".","N","A","N">>, <<".","i","n","f">>, <<".","I","n","f">>, <<".","I","N","F">>,
               <<"+",".","i","n","f">>, <<"+",".","I","n","f">>, <<"+",".","I","N","F">>, <<"-",".","i","n","f">>, <<"-",".","I","n","f">>, <<"-",".","I","N","F">>}

\* The value of a digit in bases up to 16; 99 for any other character.
DigitVal(c) ==
    IF c \in Digits THEN Ord(c) - 48
    ELSE IF Ord(c) \in 97..102 THEN Ord(c) - 87
    ELSE IF Ord(c) \in 65..70 THEN Ord(c) - 55
    ELSE 99

IsDigitsOf(s, base) == s # <<>> /\ \A i \in 1..Len(s) : DigitVal(s[i]) < base

RECURSIVE DigitsValue(_, _)
DigitsValue(s, base) ==
    IF s = <<>> THEN 0
    ELSE DigitsValue(SubSeq(s, 1, Len(s) - 1), base) * base + DigitVal(s[Len(s)])

\* The longest digit string whose value is computed here.
MaxDigits == 7

Unsigned(s) == IF s # <<>> /\ s[1] \in {"+", "-"} THEN Tail(s) ELSE s

Signed(s, n) == IF s # <<>> /\ s[1] = "-" THEN 0 - n ELSE n

\* strconv.ParseInt(s, 0, 64) on a string without underscores: an optional
\* sign, then 0x and hexadecimal digits, 0b and binary digits, 0o or a
\* leading 0 and octal digits, or decimal digits.  st is "int", "no" or, for
\* a form that not every release of the library reads alike or that is too
\* long to compute here, "unmodelled".
parseIntDigits(s, u, base, digits) ==
    IF ~IsDigitsOf(digits, base) THEN [st |-> "no", i |-> 0]
    ELSE IF Len(digits) > MaxDigits THEN [st |-> "unmodelled", i |-> 0]
    ELSE [st |-> "int", i |-> Signed(s, DigitsValue(digits, base))]

parseIntUnsigned(s, u) ==
    IF Len(u) >= 2 /\ u[1] = "0" /\ u[2] \in {"x", "X"}
        THEN parseIntDigits(s, u, 16, SubSeq(u, 3, Len(u)))
    ELSE IF Len(u) >= 2 /\ u[1] = "0" /\ u[2] \in {"b", "B", "o", "O"}
        THEN IF IsDigitsOf(SubSeq(u, 3, Len(u)), IF u[2] \in {"b", "B"} THEN 2 ELSE 8)
             THEN [st |-> "unmodelled", i |-> 0]
             ELSE [st |-> "no", i |-> 0]
    ELSE IF Len(u) >= 2 /\ u[1] = "0"
        THEN parseIntDigits(s, u, 8, Tail(u))
    ELSE parseIntDigits(s, u, 10, u)

strconvParseInt(s) == parseIntUnsigned(s, Unsigned(s))

\* yamlStyleFloat of resolve.go, as released first
\* ([-+]?[0-9]*\.?[0-9]+([eE][-+][0-9]+)?) and as released later
\* ([-+]?(\.[0-9]+|[0-9]+(\.[0-9]*)?)([eE][-+]?[0-9]+)?).
ExponentAt(u) == {i \in 1..Len(u) : u[i] \in {"e", "E"}}

Mantissa(u) ==
    IF ExponentAt(u) = {} THEN u ELSE SubSeq(u, 1, Min(ExponentAt(u)) - 1)

Exponent(u) ==
    IF ExponentAt(u) = {} THEN <<>> ELSE SubSeq(u, Min(ExponentAt(u)) + 1, Len(u))

DotAt(mant) == {i \in 1..Len(mant) : mant[i] = "."}

IntPart(mant) == IF DotAt(mant) = {} THEN mant ELSE SubSeq(mant, 1, Min(DotAt(mant)) - 1)

FracPart(mant) ==
    IF DotAt(mant) = {} THEN <<>> ELSE SubSeq(mant, Min(DotAt(mant)) + 1, Len(mant))

MantissaFirst(mant) ==
    IF DotAt(mant) = {} THEN IsDigits(mant)
    ELSE (IntPart(mant) = <<>> \/ IsDigits(IntPart(mant))) /\ IsDigits(FracPart(mant))

MantissaLater(mant) ==
    IF DotAt(mant) = {} THEN IsDigits(mant)
    ELSE IF IntPart(mant) = <<>> THEN IsDigits(FracPart(mant))
    ELSE IsDigits(IntPart(mant)) /\ (FracPart(mant) = <<>> \/ IsDigits(FracPart(mant)))

ExponentFirst(u) ==
    \/ ExponentAt(u) = {}
    \/ /\ Exponent(u) # <<>>
       /\ Exponent(u)[1] \in {"+", "-"}
       /\ IsDigits(Tail(Exponent(u)))

ExponentLater(u) == ExponentAt(u) = {} \/ IsDigits(Unsigned(Exponent(u)))

yamlStyleFloatFirst(s) ==
    MantissaFirst(Mantissa(Unsigned(s))) /\ ExponentFirst(Unsigned(s))

yamlStyleFloatLater(s) ==
    MantissaLater(Mantissa(Unsigned(s))) /\ ExponentLater(Unsigned(s))

\* A date at the head of the scalar (the timestamp forms).
LooksLikeDate(s) == Len(s) >= 6 /\ IsDigits(SubSeq(s, 1, 4)) /\ s[5] = "-" /\ s[6] \in Digits

WithoutUnderscores(s) == SelectSeq(s, LAMBDA c : c # "_")

\* The number branch of resolve (hint 'D' or 'S'): plain is s without its
\* underscores.
resolveNumber(s, plain, int) ==
    IF int.st = "int" THEN IntNode(int.i)
    ELSE IF int.st = "unmodelled" THEN UnmodelledNode
    ELSE IF yamlStyleFloatFirst(plain) /\ yamlStyleFloatLater(plain)
        THEN IF Len(Exponent(Unsigned(plain))) > 3 THEN UnmodelledNode ELSE FloatNode
    ELSE IF yamlStyleFloatFirst(plain) \/ yamlStyleFloatLater(plain) THEN UnmodelledNode
    ELSE StrNode(s)

\* The branch for a leading dot: strconv.ParseFloat decides.
resolveDot(s, plain) ==
    IF MantissaLater(Mantissa(plain)) /\ ExponentLater(plain)
    THEN IF plain # s \/ Len(Exponent(plain)) > 3 THEN UnmodelledNode ELSE FloatNode
    ELSE StrNode(s)

\* resolve("", in) for a plain scalar.
resolve(s) ==
    IF s = <<>> \/ s \in NullWords THEN NullNode
    ELSE IF s \in TrueWords THEN BoolNode(TRUE)
    ELSE IF s \in FalseWords THEN BoolNode(FALSE)
    ELSE IF s \in FloatWords THEN FloatNode
    ELSE IF s = <<"<","<">> THEN UnmodelledNode
    ELSE IF s[1] = "." THEN resolveDot(s, WithoutUnderscores(s))
    ELSE IF s[1] \in Digits \cup {"+", "-"}
        THEN IF LooksLikeDate(s) THEN UnmodelledNode
             ELSE resolveNumber(s, WithoutUnderscores(s),
                                strconvParseInt(WithoutUnderscores(s)))
    ELSE StrNode(s)

\* isBase60Float of encode.go.
isBase60Float(s) ==
    /\ s # <<>>
    /\ s[1] \in Digits \cup {"+", "-"}
    /\ Contains(s, <<":">>)
    /\ LET u == Unsigned(s)
           colon == Min({i \in 1..Len(u) : u[i] = ":"})
           head == SubSeq(u, 1, colon - 1)
           tail == SubSeq(u, colon, Len(u))
           groups == SplitOn(Tail(IntPart(tail)), ":")
       IN  /\ head # <<>>
           /\ head[1] \in Digits
           /\ \A i \in 1..Len(head) : head[i] \in Digits \cup {"_"}
           /\ \A i \in 1..Len(groups) :
                  \/ IsDigits(groups[i]) /\ Len(groups[i]) = 1
                  \/ IsDigits(groups[i]) /\ Len(groups[i]) = 2
                         /\ DigitVal(groups[i][1]) <= 5
           /\ \A i \in 1..Len(FracPart(tail)) : FracPart(tail)[i] \in Digits \cup {"_"}

\* ------------------------------------------------------------- the emitter
\* yaml_emitter_analyze_scalar (emitterc.go) on a non-empty ASCII string:
\* which styles the scalar may be written in.
IsBreak(c) == c = "\n"

IndicatorsAtStart == {"#", ",", "[", "]", "{", "}", "&", "*", "!", "|", ">", "'",
                      "\"", "%", "@"}

FollowedByWhitespace(v, i) == i = Len(v) \/ v[i + 1] = " "

PrecededByWhitespace(v, i) == i = 1 \/ v[i - 1] = " " \/ v[i - 1] = "\n"

analyzeScalar(v) ==
    LET n == Len(v)
        dashes == n >= 3 /\ (SubSeq(v, 1, 3) = <<"-","-","-">> \/ SubSeq(v, 1, 3) = <<".",".",".">>)
        blockIndicators ==
            \/ dashes
            \/ v[1] \in IndicatorsAtStart
            \/ v[1] \in {"?", ":", "-"} /\ FollowedByWhitespace(v, 1)
            \/ \E i \in 2..n :
                   \/ v[i] = ":" /\ FollowedByWhitespace(v, i)
                   \/ v[i] = "#" /\ PrecededByWhitespace(v, i)
        flowIndicators ==
            \/ blockIndicators
            \/ v[1] \in {"?", ":"}
            \/ \E i \in 2..n : v[i] \in {",", "?", "[", "]", "{", "}", ":"}
        lineBreaks == \E i \in 1..n : IsBreak(v[i])
        leading == v[1] = " " \/ IsBreak(v[1])
        trailingSpace == v[n] = " "
        trailingBreak == IsBreak(v[n])
        breakSpace == \E i \in 2..n : v[i] = " " /\ IsBreak(v[i - 1])
        spaceBreak == \E i \in 2..n : IsBreak(v[i]) /\ v[i - 1] = " "
    IN  [multiline |-> lineBreaks,
         flowPlain |-> ~(leading \/ trailingSpace \/ trailingBreak \/ breakSpace
                           \/ spaceBreak \/ lineBreaks \/ flowIndicators),
         blockPlain |-> ~(leading \/ trailingSpace \/ trailingBreak \/ breakSpace
                            \/ spaceBreak \/ lineBreaks \/ blockIndicators),
         singleQuoted |-> ~(breakSpace \/ spaceBreak),
         block |-> ~(trailingSpace \/ spaceBreak)]

\* encoder.stringv and yaml_emitter_select_scalar_style: the style a string
\* is written in; simpleKey says it is a mapping key.
scalarStyle(s, simpleKey, an, tag) ==
    LET asked == IF Contains(s, <<"\n">>) THEN "literal"
                 ELSE IF tag.t = "str" /\ ~isBase60Float(s) THEN "plain"
                 ELSE "double"
        first == IF simpleKey /\ an.multiline THEN "double" ELSE asked
        second == IF first = "plain" /\ ~an.blockPlain THEN "single" ELSE first
        third == IF second = "single" /\ ~an.singleQuoted THEN "double" ELSE second
    IN  IF third = "literal" /\ (~an.block \/ simpleKey) THEN "double" ELSE third

styleOf(s, simpleKey) ==
    IF s = <<>> THEN "double"
    ELSE scalarStyle(s, simpleKey, analyzeScalar(s), resolve(s))

\* A string whose style is not followed here: the resolver's answer is not,
\* or it is a key that has to be written as a complex key (it holds a line
\* break or is longer than yaml_emitter_check_simple_key allows).
MaxSimpleKey == 128

StyleUnmodelled(s, simpleKey) ==
    \/ s # <<>> /\ resolve(s).t = "unmodelled"
    \/ simpleKey /\ (Contains(s, <<"\n">>) \/ Len(s) > MaxSimpleKey)

\* The column past which the emitter breaks a line at a space.
BestWidth == 80

\* What a style writes for one character.
Escaped(c, style) ==
    IF style = "single" THEN IF c = "'" THEN <<"'","'">> ELSE <<c>>
    ELSE IF style = "double"
        THEN IF c = "\n" THEN <<"\\","n">>
             ELSE IF c = "\"" THEN <<"\\","\"">>
             ELSE IF c = "\\" THEN <<"\\","\\">>
             ELSE <<c>>
    ELSE <<c>>

\* What is written for s[a..b] on one line.
writeChars(s, a, b, style) ==
    Concat([j \in 1..(b - a + 1) |-> Escaped(s[a + j - 1], style)])

\* Whether the space s[i] may be replaced by a line break: no space came
\* just before and, by style, the space is not the first or last character
\* and no space follows.
MayFold(s, i, style) ==
    /\ s[i] = " "
    /\ ~(i > 1 /\ s[i - 1] = " ")
    /\ style # "plain" => (i > 1 /\ i < Len(s))
    /\ style # "double" => ~(i < Len(s) /\ s[i + 1] = " ")

\* The spaces of s from a on that are replaced by a line break when s[a] is
\* written at column col: those reached past BestWidth.
FoldsFrom(s, a, col, style) ==
    {i \in a..Len(s) :
        MayFold(s, i, style) /\ col + Len(writeChars(s, a, i - 1, style)) > BestWidth}

\* yaml_emitter_write_plain_scalar, _single_quoted and _double_quoted from
\* the character s[a] on, which is written at column col: up to the first
\* space that is replaced by a line break, then the indentation ind of a
\* continuation line (and a backslash to keep a space that follows, which
\* only the double-quoted style comes to), then the rest.  A key (allow
\* FALSE) is never broken.
RECURSIVE writeFrom(_, _, _, _, _, _)
writeFrom(s, a, col, ind, style, allow) ==
    LET at == IF allow THEN FoldsFrom(s, a, col, style) ELSE {}
    IN  IF at = {} THEN writeChars(s, a, Len(s), style)
        ELSE IF Min(at) < Len(s) /\ s[Min(at) + 1] = " "
            THEN writeChars(s, a, Min(at) - 1, style) \o <<"\n">> \o Spaces(ind) \o <<"\\">>
                     \o writeFrom(s, Min(at) + 1, ind + 1, ind, style, allow)
        ELSE writeChars(s, a, Min(at) - 1, style) \o <<"\n">> \o Spaces(ind)
                 \o writeFrom(s, Min(at) + 1, ind, ind, style, allow)

writeSingleQuoted(s, col, ind, allow) ==
    <<"'">> \o writeFrom(s, 1, col + 1, ind, "single", allow) \o <<"'">>

writeDoubleQuoted(s, col, ind, allow) ==
    <<"\"">> \o writeFrom(s, 1, col + 1, ind, "double", allow) \o <<"\"">>

\* The number of line breaks that end s.
RECURSIVE TrailingBreaks(_)
TrailingBreaks(s) ==
    IF s # <<>> /\ s[Len(s)] = "\n" THEN 1 + TrailingBreaks(SubSeq(s, 1, Len(s) - 1)) ELSE 0

\* yaml_emitter_write_block_scalar_hints: an indentation hint when the text
\* starts with a space or a break, "-" when it does not end in a break, "+"
\* when it ends in more than one or is a break alone.
blockHints(s) ==
    (IF s[1] = " " \/ s[1] = "\n" THEN <<"2">> ELSE <<>>)
        \o (IF TrailingBreaks(s) = 0 THEN <<"-">>
            ELSE IF Len(s) = 1 \/ TrailingBreaks(s) > 1 THEN <<"+">>
            ELSE <<>>)

\* yaml_emitter_write_literal_scalar: the header, then every line of the
\* text at the indentation ind; an empty line is written empty.
writeLiteral(s, ind) ==
    LET body == IF TrailingBreaks(s) = 0 THEN s ELSE SubSeq(s, 1, Len(s) - 1)
        ls == SplitOn(body, "\n")
    IN  <<"|">> \o blockHints(s)
            \o Concat([i \in 1..Len(ls) |->
                           <<"\n">> \o (IF ls[i] = <<>> THEN <<>> ELSE Spaces(ind) \o ls[i])])

\* yaml_emitter_process_scalar: s written from column col on, in a block
\* whose continuation lines are indented by ind; allow says lines may be
\* broken (not in a key).
writeScalar(s, col, ind, style, allow) ==
    IF style = "plain" THEN writeFrom(s, 1, col, ind, "plain", allow)
    ELSE IF style = "single" THEN writeSingleQuoted(s, col, ind, allow)
    ELSE IF style = "double" THEN writeDoubleQuoted(s, col, ind, allow)
    ELSE writeLiteral(s, ind)

\* keyList.Less of sorter.go on two different strings: at the first
\* difference letters sort by code and after anything that is no letter, and
\* digit runs compare by value.
DigitRunEnd(s, i) ==
    IF \A j \in i..Len(s) : s[j] \in Digits THEN Len(s)
    ELSE Min({j \in i..Len(s) : s[j] \notin Digits}) - 1

\* The digits before position i, up to the nearest non-digit, hold a
\* non-zero digit.
NonZeroBefore(s, i) ==
    \E j \in 1..(i - 1) : s[j] \in Digits \ {"0"} /\ \A k \in j..(i - 1) : s[k] \in Digits

keyLessAt(a, b, i) ==
    LET al == a[i] \in Letters
        bl == b[i] \in Letters
        ae == DigitRunEnd(a, i)
        be == DigitRunEnd(b, i)
        an == DigitsValue(SubSeq(a, i, ae), 10)
        bn == DigitsValue(SubSeq(b, i, be), 10)
    IN  IF al /\ bl THEN Ord(a[i]) < Ord(b[i])
        ELSE IF al \/ bl THEN bl
        ELSE IF an # bn THEN an < bn
        ELSE IF ae # be THEN ae < be
        ELSE Ord(a[i]) < Ord(b[i])

keyLess(a, b) ==
    LET n == IF Len(a) < Len(b) THEN Len(a) ELSE Len(b)
        diffs == {i \in 1..n : a[i] # b[i]}
    IN  IF diffs = {} THEN Len(a) < Len(b) ELSE keyLessAt(a, b, Min(diffs))

\* Insertion of a key into a sorted list, and the sort of a set of keys.
RECURSIVE InsertKey(_, _)
InsertKey(sorted, k) ==
    IF sorted = <<>> THEN <<k>>
    ELSE IF keyLess(k, Head(sorted)) THEN <<k>> \o sorted
    ELSE <<Head(sorted)>> \o InsertKey(Tail(sorted), k)

RECURSIVE SortedKeys(_)
SortedKeys(S) ==
    IF S = {} THEN <<>>
    ELSE LET least == CHOOSE a \in S : \A b \in S : a = b \/ StrLess(a, b)
         IN  InsertKey(SortedKeys(S \ {least}), least)

\* A set of keys whose order is not followed here: a digit run too long for
\* its value to be computed, or a first difference at a zero that follows a
\* non-zero digit, which releases of the sorter compare differently.
LongDigitRun(s) ==
    \E i \in 1..Len(s) : i + MaxDigits <= Len(s)
                            /\ \A j \in i..(i + MaxDigits) : s[j] \in Digits

ZeroAfterDigits(a, b) ==
    LET n == IF Len(a) < Len(b) THEN Len(a) ELSE Len(b)
        diffs == {i \in 1..n : a[i] # b[i]}
    IN  /\ diffs # {}
        /\ a[Min(diffs)] = "0" \/ b[Min(diffs)] = "0"
        /\ NonZeroBefore(a, Min(diffs))

KeyOrderUnmodelled(S) ==
    \/ \E a \in S : LongDigitRun(a)
    \/ \E a, b \in S : ZeroAfterDigits(a, b)

\* A key: a scalar on one line, never broken.
emitKey(k) == writeScalar(k, 0, 0, styleOf(k, TRUE), FALSE)

\* A string value that starts at column col (after the key, its colon and a
\* space); its later lines are indented by ind.
emitString(s, col, ind) == writeScalar(s, col, ind, styleOf(s, FALSE), TRUE)

\* encoder.mappingv over yaml_emitter_emit_block_mapping_*: the entries of a
\* mapping at indentation ind, one "key: value" group after the other.  An
\* entry is a key string and a node; a nested mapping goes one level deeper,
\* an empty one is written {}.
RECURSIVE yamlEmit(_, _)
emitEntry(key, v, ind) ==
    Spaces(ind) \o key \o <<":">>
        \o (IF v.t = "map"
            THEN IF v.m = <<>> THEN <<" ","{","}","\n">>
                 ELSE <<"\n">> \o yamlEmit(v.m, ind + 2)
            ELSE IF v.t = "str"
                THEN <<" ">> \o emitString(v.s, ind + Len(key) + 2, ind + 2) \o <<"\n">>
            ELSE IF v.t = "int" THEN <<" ">> \o FormatInt(v.i) \o <<"\n">>
            ELSE IF v.t = "bool"
                THEN (IF v.b THEN <<" ","t","r","u","e","\n">> ELSE <<" ","f","a","l","s","e","\n">>)
            ELSE <<" ","n","u","l","l","\n">>)

yamlEmit(entries, ind) ==
    Concat([i \in 1..Len(entries) |-> emitEntry(emitKey(entries[i].k), entries[i].v, ind)])

\* The last scalar a mapping writes, as a node.
RECURSIVE LastScalar(_)
LastScalar(entries) ==
    IF entries = <<>> THEN NullNode
    ELSE IF entries[Len(entries)].v.t = "map" /\ entries[Len(entries)].v.m # <<>>
        THEN LastScalar(entries[Len(entries)].v.m)
    ELSE entries[Len(entries)].v

\* Whether the text written for the entries is not followed here: a key or
\* a string whose style is not, keys whose order is not, or a document that
\* ends in a block scalar written with "+", after which the emitter may add
\* an end marker.
RECURSIVE EmitUnmodelled(_)
EmitUnmodelled(entries) ==
    \/ KeyOrderUnmodelled({entries[i].k : i \in 1..Len(entries)})
    \/ \E i \in 1..Len(entries) :
           \/ StyleUnmodelled(entries[i].k, TRUE)
           \/ entries[i].v.t = "str" /\ StyleUnmodelled(entries[i].v.s, FALSE)
           \/ entries[i].v.t = "map" /\ EmitUnmodelled(entries[i].v.m)

KeptAtEnd(entries) ==
    LET last == LastScalar(entries)
    IN  last.t = "str" /\ (last.s = <<"\n">> \/ TrailingBreaks(last.s) > 1)
            /\ styleOf(last.s, FALSE) = "literal"

\* yaml.Marshal of a mapping.
yamlMarshal(entries) ==
    [unmodelled |-> EmitUnmodelled(entries) \/ KeptAtEnd(entries),
     text |-> IF entries = <<>> THEN <<"{","}","\n">> ELSE yamlEmit(entries, 0)]

\* -------------------------------------------------------------- the reader
\* yaml.v2's scanner and parser on block documents: mappings and sequences
\* by indentation, plain, quoted and literal scalars, comments, and flow
\* collections written on one line.  A parse gives st "ok" with the node v
\* and the lines after it, st "err" for what the library rejects, and st
\* "unmodelled" for YAML this module does not follow (anchors, tags, folded
\* scalars, scalars and flow collections that continue on the next line,
\* text after the first document's node, compact nested collections).
Ok(v, rest) == [st |-> "ok", v |-> v, rest |-> rest]

Fail(st) == [st |-> st, v |-> NullNode, rest |-> <<>>]

ParseFailure == Fail("err")

NotModelled == Fail("unmodelled")

IsBlank(line) == \A i \in 1..Len(line) : line[i] = " "

IsComment(line) == ~IsBlank(line) /\ TrimLeft(line)[1] = "#"

RECURSIVE SkipBlank(_)
SkipBlank(lines) ==
    IF lines # <<>> /\ (IsBlank(Head(lines)) \/ IsComment(Head(lines)))
    THEN SkipBlank(Tail(lines))
    ELSE lines

\* A document start or end marker.
IsMarker(line) ==
    /\ Len(line) >= 3
    /\ SubSeq(line, 1, 3) \in {<<"-","-","-">>, <<".",".",".">>}
    /\ Len(line) = 3 \/ line[4] = " "

\* "- " at the head of a line's text.
IsSeqItem(body) == body # <<>> /\ body[1] = "-" /\ (Len(body) = 1 \/ body[2] = " ")

\* Where a mapping value indicator stands (a colon before a space or the end
\* of the line) and where a comment starts (a # at the head or after a space).
ColonAt(s) == {i \in 1..Len(s) : s[i] = ":" /\ (i = Len(s) \/ s[i + 1] = " ")}

CommentAt(s) == {i \in 1..Len(s) : s[i] = "#" /\ (i = 1 \/ s[i - 1] = " ")}

StripComment(s) == IF CommentAt(s) = {} THEN s ELSE SubSeq(s, 1, Min(CommentAt(s)) - 1)

\* The closing quote of a quoted scalar that opens at s[1]; 0 when the line
\* ends first.
RECURSIVE SingleQuoteEnd(_, _)
SingleQuoteEnd(s, j) ==
    IF j > Len(s) THEN 0
    ELSE IF s[j] # "'" THEN SingleQuoteEnd(s, j + 1)
    ELSE IF j < Len(s) /\ s[j + 1] = "'" THEN SingleQuoteEnd(s, j + 2)
    ELSE j

RECURSIVE DoubleQuoteEnd(_, _)
DoubleQuoteEnd(s, j) ==
    IF j > Len(s) THEN 0
    ELSE IF s[j] = "\\" THEN DoubleQuoteEnd(s, j + 2)
    ELSE IF s[j] = "\"" THEN j
    ELSE DoubleQuoteEnd(s, j + 1)

quoteEnd(s) == IF s[1] = "'" THEN SingleQuoteEnd(s, 2) ELSE DoubleQuoteEnd(s, 2)

\* The text between single quotes: '' stands for one quote.
RECURSIVE SingleQuoted(_)
SingleQuoted(s) ==
    IF s = <<>> THEN <<>>
    ELSE IF s[1] = "'" THEN <<"'">> \o SingleQuoted(SubSeq(s, 3, Len(s)))
    ELSE <<s[1]>> \o SingleQuoted(Tail(s))

\* The text between double quotes.  The escapes for a character outside
\* printable ASCII are not followed; an unknown escape is an error.
SimpleEscapes == {"\\", "\"", "/", " ", "n"}

OtherEscapes == {"0", "a", "b", "t", "v", "f", "r", "e", "N", "_", "L", "P", "x", "u", "U"}

Prefixed(c, r) == [st |-> r.st, s |-> c \o r.s]

RECURSIVE DoubleQuoted(_)
DoubleQuoted(s) ==
    IF s = <<>> THEN [st |-> "ok", s |-> <<>>]
    ELSE IF s[1] # "\\" THEN Prefixed(<<s[1]>>, DoubleQuoted(Tail(s)))
    ELSE IF Len(s) < 2 THEN [st |-> "err", s |-> <<>>]
    ELSE IF s[2] \in SimpleEscapes
        THEN Prefixed(IF s[2] = "n" THEN <<"\n">> ELSE <<s[2]>>,
                      DoubleQuoted(SubSeq(s, 3, Len(s))))
    ELSE IF s[2] \in OtherEscapes THEN [st |-> "unmodelled", s |-> <<>>]
    ELSE [st |-> "err", s |-> <<>>]

quotedText(s, end) ==
    IF s[1] = "'" THEN [st |-> "ok", s |-> SingleQuoted(SubSeq(s, 2, end - 1))]
    ELSE DoubleQuoted(SubSeq(s, 2, end - 1))

\* What may follow a complete scalar on its line: nothing, or a comment.
EndsLine(r) == IsBlank(r) \/ (r[1] = " " /\ TrimLeft(r)[1] = "#")

\* One line's text as a mapping entry (a key, a value indicator and what
\* follows it) or as a scalar.
LineOf(kind, key, after) == [kind |-> kind, key |-> key, after |-> after]

KeyIndicators == {",", "[", "]", "{", "}", "&", "*", "!", "|", ">", "%", "@"}

plainKey(key, after) ==
    IF key = <<>> \/ key[1] \in KeyIndicators
           \/ (key[1] \in {"?", "-"} /\ (Len(key) = 1 \/ key[2] = " "))
    THEN LineOf("unmodelled", NullNode, <<>>)
    ELSE LineOf("entry", resolve(key), after)

plainLine(body, colons, comments) ==
    IF colons = {} \/ \E c \in comments : c < Min(colons)
    THEN LineOf("scalar", NullNode, <<>>)
    ELSE plainKey(TrimRight(SubSeq(body, 1, Min(colons) - 1)),
                  SubSeq(body, Min(colons) + 1, Len(body)))

quotedKey(text, r) ==
    IF r # <<>> /\ r[1] = ":" /\ (Len(r) = 1 \/ r[2] = " ")
    THEN IF text.st = "ok" THEN LineOf("entry", StrNode(text.s), Tail(r))
         ELSE LineOf(text.st, NullNode, <<>>)
    ELSE LineOf("scalar", NullNode, <<>>)

quotedLine(body, end) ==
    IF end = 0 THEN LineOf("unmodelled", NullNode, <<>>)
    ELSE quotedKey(quotedText(body, end), TrimLeft(SubSeq(body, end + 1, Len(body))))

yamlLine(body) ==
    IF body[1] \in {"'", "\""} THEN quotedLine(body, quoteEnd(body))
    ELSE plainLine(body, ColonAt(body), CommentAt(body))

\* ------------------------------------------------ flow collections
\* {key: value, ...} and [item, ...] on one line, from position i of s.
FlowOk(v, next) == [st |-> "ok", v |-> v, next |-> next]

FlowFail(st) == [st |-> st, v |-> NullNode, next |-> 0]

SkipSpaces(s, i) ==
    IF \A j \in i..Len(s) : s[j] = " " THEN Len(s) + 1
    ELSE Min({j \in i..Len(s) : s[j] # " "})

FlowEnders == {",", "[", "]", "{", "}"}

flowScalarEnd(s, i) ==
    LET ends == {j \in i..Len(s) :
                    \/ s[j] \in FlowEnders
                    \/ s[j] = ":" /\ (j = Len(s) \/ s[j + 1] = " ")
                    \/ s[j] = "#" /\ s[j - 1] = " "}
    IN  IF ends = {} THEN Len(s) ELSE Min(ends) - 1

flowPlain(s, i, e) ==
    IF Contains(SubSeq(s, i, e), <<":">>) THEN FlowFail("unmodelled")
    ELSE FlowOk(resolve(TrimRight(SubSeq(s, i, e))), e + 1)

flowQuoted(s, i, end) ==
    IF end = 0 THEN FlowFail("unmodelled")
    ELSE LET text == quotedText(SubSeq(s, i, Len(s)), end)
         IN  IF text.st = "ok" THEN FlowOk(StrNode(text.s), i + end) ELSE FlowFail(text.st)

FlowIndicators == {"&", "*", "!", "|", ">", "%", "@", "#", "?", ",", "]", "}", ":"}

RECURSIVE flowNode(_, _)
RECURSIVE flowMap(_, _, _)
RECURSIVE flowSeq(_, _, _)

flowMapSep(s, i, acc) ==
    IF i > Len(s) THEN FlowFail("unmodelled")
    ELSE IF s[i] = "," THEN flowMap(s, SkipSpaces(s, i + 1), acc)
    ELSE IF s[i] = "}" THEN FlowOk(MapNode(acc), i + 1)
    ELSE FlowFail("unmodelled")

flowMapAfter(s, key, v, acc) ==
    IF v.st # "ok" THEN v
    ELSE flowMapSep(s, SkipSpaces(s, v.next), Append(acc, [k |-> key, v |-> v.v]))

flowMapValue(s, key, i, acc) ==
    IF i > Len(s) THEN FlowFail("unmodelled")
    ELSE IF s[i] \in {",", "}"} THEN flowMapSep(s, i, Append(acc, [k |-> key, v |-> NullNode]))
    ELSE flowMapAfter(s, key, flowNode(s, i), acc)

flowMapColon(s, key, i, acc) ==
    IF i > Len(s) THEN FlowFail("unmodelled")
    ELSE IF s[i] = ":" THEN flowMapValue(s, key, SkipSpaces(s, i + 1), acc)
    ELSE IF s[i] \in {",", "}"} THEN flowMapSep(s, i, Append(acc, [k |-> key, v |-> NullNode]))
    ELSE FlowFail("unmodelled")

flowMapKey(s, k, acc) ==
    IF k.st # "ok" THEN k
    ELSE IF ~IsScalar(k.v) THEN FlowFail("unmodelled")
    ELSE flowMapColon(s, k.v, SkipSpaces(s, k.next), acc)

flowMap(s, i, acc) ==
    IF i > Len(s) THEN FlowFail("unmodelled")
    ELSE IF s[i] = "}" THEN FlowOk(MapNode(acc), i + 1)
    ELSE flowMapKey(s, flowNode(s, i), acc)

flowSeqSep(s, i, acc) ==
    IF i > Len(s) THEN FlowFail("unmodelled")
    ELSE IF s[i] = "," THEN flowSeq(s, SkipSpaces(s, i + 1), acc)
    ELSE IF s[i] = "]" THEN FlowOk(SeqNode(acc), i + 1)
    ELSE FlowFail("unmodelled")

flowSeqItem(s, v, acc) ==
    IF v.st # "ok" THEN v ELSE flowSeqSep(s, SkipSpaces(s, v.next), Append(acc, v.v))

flowSeq(s, i, acc) ==
    IF i > Len(s) THEN FlowFail("unmodelled")
    ELSE IF s[i] = "]" THEN FlowOk(SeqNode(acc), i + 1)
    ELSE flowSeqItem(s, flowNode(s, i), acc)

flowNode(s, i) ==
    IF s[i] = "{" THEN flowMap(s, SkipSpaces(s, i + 1), <<>>)
    ELSE IF s[i] = "[" THEN flowSeq(s, SkipSpaces(s, i + 1), <<>>)
    ELSE IF s[i] \in {"'", "\""} THEN flowQuoted(s, i, quoteEnd(SubSeq(s, i, Len(s))))
    ELSE IF s[i] \in FlowIndicators \/ (s[i] = "-" /\ (i = Len(s) \/ s[i + 1] = " "))
        THEN FlowFail("unmodelled")
    ELSE flowPlain(s, i, flowScalarEnd(s, i))

flowValue(r, val, rest) ==
    IF r.st # "ok" THEN Fail(r.st)
    ELSE IF ~EndsLine(SubSeq(val, r.next, Len(val))) THEN NotModelled
    ELSE Ok(r.v, rest)

\* ------------------------------------------------ block scalars
\* The header after "|": a chomping indicator and an indentation indicator
\* in either order, then nothing or a comment.
blockHeader(h) ==
    LET t == TrimRight(IF h # <<>> /\ h[1] = "#" THEN h ELSE StripComment(h))
        chomp == IF Contains(t, <<"-">>) THEN "strip"
                 ELSE IF Contains(t, <<"+">>) THEN "keep" ELSE "clip"
        digits == SelectSeq(t, LAMBDA c : c \in Digits)
    IN  [ok |-> /\ Len(t) <= 2
                /\ \A i \in 1..Len(t) : t[i] \in (Digits \ {"0"}) \cup {"+", "-"}
                /\ Len(digits) <= 1
                /\ Len(t) - Len(digits) <= 1,
         chomp |-> chomp,
         indent |-> IF digits = <<>> THEN 0 ELSE DigitVal(digits[1])]

\* The literal's text: lines are those of the block, each without the
\* block's indentation.
chomped(lines, chomp) ==
    LET empties == {i \in 1..Len(lines) : \A j \in i..Len(lines) : lines[j] = <<>>}
        body == SubSeq(lines, 1, Len(lines) - Cardinality(empties))
    IN  IF chomp = "strip" THEN JoinStrings(body, <<"\n">>)
        ELSE IF chomp = "clip"
            THEN IF body = <<>> THEN <<>> ELSE JoinStrings(body, <<"\n">>) \o <<"\n">>
        ELSE JoinStrings(body, <<"\n">>)
                 \o Concat([i \in 1..(Cardinality(empties) + IF body = <<>> THEN 0 ELSE 1) |->
                               <<"\n">>])

\* The lines that belong to a block scalar indented by bi: the blank ones
\* and those indented at least that far.
BlockLines(rest, bi) ==
    LET out == {i \in 1..Len(rest) : ~IsBlank(rest[i]) /\ LeadingSpaces(rest[i]) < bi}
    IN  IF out = {} THEN Len(rest) ELSE Min(out) - 1

blockScalar(rest, bi, chomp, n) ==
    Ok(StrNode(chomped([i \in 1..n |-> SubSeq(rest[i], bi + 1, Len(rest[i]))], chomp)),
       SubSeq(rest, n + 1, Len(rest)))

\* The indentation of a block scalar under a node at indentation ind: the
\* header's indicator, or that of the first line that is not blank.
blockIndent(hdr, rest, ind) ==
    LET base == IF ind < 0 THEN 0 ELSE ind
        content == {i \in 1..Len(rest) : ~IsBlank(rest[i])}
        first == IF content = {} THEN 0 ELSE LeadingSpaces(rest[Min(content)])
        widest == Max({0} \cup {Len(rest[i]) : i \in {j \in 1..Len(rest) :
                                                   \A k \in 1..j : IsBlank(rest[k])}})
        least == IF ind + 1 < 1 THEN 1 ELSE ind + 1
    IN  IF hdr.indent > 0 THEN [ok |-> TRUE, bi |-> base + hdr.indent]
        ELSE [ok |-> widest <= (IF first < least THEN least ELSE first),
              bi |-> IF first < least THEN least ELSE first]

blockValue(hdr, bi, rest) ==
    IF ~hdr.ok \/ ~bi.ok THEN NotModelled
    ELSE blockScalar(rest, bi.bi, hdr.chomp, BlockLines(rest, bi.bi))

\* ------------------------------------------------ block collections
quotedValue(val, end, rest) ==
    IF end = 0 \/ ~EndsLine(SubSeq(val, end + 1, Len(val))) THEN NotModelled
    ELSE LET text == quotedText(val, end)
         IN  IF text.st = "ok" THEN Ok(StrNode(text.s), rest) ELSE Fail(text.st)

\* A plain scalar: a value indicator inside it is an error, and a deeper
\* line after it would continue it.
plainValue(text, next, rest, ind) ==
    IF ColonAt(text) # {} THEN ParseFailure
    ELSE IF next # <<>> /\ LeadingSpaces(Head(next)) > ind THEN NotModelled
    ELSE Ok(resolve(text), rest)

RECURSIVE yamlParseMap(_, _, _)
RECURSIVE yamlParseSeq(_, _, _)
RECURSIVE yamlBlock(_, _)

\* The value of a key that has nothing after its colon: the deeper block
\* that follows, a sequence at the key's own indentation, or null.
nestedValue(next, ind, ctx) ==
    IF next = <<>> THEN Ok(NullNode, <<>>)
    ELSE IF LeadingSpaces(Head(next)) > ind
        THEN IF ctx = "seq" THEN NotModelled ELSE yamlBlock(next, ind)
    ELSE IF LeadingSpaces(Head(next)) = ind /\ IsSeqItem(TrimLeft(Head(next)))
                /\ ctx = "map"
        THEN yamlParseSeq(next, ind, <<>>)
    ELSE Ok(NullNode, next)

\* The node that starts with val, the text after a key's colon, after a
\* sequence's dash, or a whole line; rest are the lines after it and ind the
\* indentation of the collection it belongs to.
yamlValue(val, rest, ind, ctx) ==
    IF val = <<>> \/ val[1] = "#" THEN nestedValue(SkipBlank(rest), ind, ctx)
    ELSE IF val[1] = "|"
        THEN blockValue(blockHeader(Tail(val)), blockIndent(blockHeader(Tail(val)), rest, ind),
                        rest)
    ELSE IF val[1] \in {"'", "\""} THEN quotedValue(val, quoteEnd(val), rest)
    ELSE IF val[1] \in {"{", "["} THEN flowValue(flowNode(val, 1), val, rest)
    ELSE IF val[1] \in {"%", "@"} THEN ParseFailure
    ELSE IF val[1] \in {">", "&", "*", "!", ",", "]", "}"}
                \/ (val[1] \in {"-", "?", ":"} /\ (Len(val) = 1 \/ val[2] = " "))
        THEN NotModelled
    ELSE plainValue(TrimRight(StripComment(val)), SkipBlank(rest), rest, ind)

mapNext(key, r, ind, acc) ==
    IF r.st # "ok" THEN r
    ELSE yamlParseMap(SkipBlank(r.rest), ind, Append(acc, [k |-> key, v |-> r.v]))

yamlEntry(line, lines, ind, acc) ==
    IF line.kind = "entry"
        THEN mapNext(line.key, yamlValue(TrimLeft(line.after), Tail(lines), ind, "map"),
                     ind, acc)
    ELSE IF line.kind = "scalar" THEN ParseFailure
    ELSE Fail(line.kind)

\* The mapping whose keys sit at indentation ind, from its next entry on;
\* acc are the entries read so far.
yamlParseMap(lines, ind, acc) ==
    IF lines = <<>> THEN Ok(MapNode(acc), <<>>)
    ELSE IF LeadingSpaces(Head(lines)) < ind THEN Ok(MapNode(acc), lines)
    ELSE IF LeadingSpaces(Head(lines)) > ind \/ IsMarker(Head(lines)) THEN NotModelled
    ELSE IF IsSeqItem(TrimLeft(Head(lines))) THEN ParseFailure
    ELSE IF TrimLeft(Head(lines))[1] \in {"{", "["} THEN NotModelled
    ELSE yamlEntry(yamlLine(TrimLeft(Head(lines))), lines, ind, acc)

seqNext(r, ind, acc) ==
    IF r.st # "ok" THEN r ELSE yamlParseSeq(SkipBlank(r.rest), ind, Append(acc, r.v))

seqItem(item, lines, ind, acc) ==
    IF item # <<>> /\ (IsSeqItem(item)
                          \/ (item[1] \notin {"{", "["} /\ yamlLine(item).kind # "scalar"))
    THEN NotModelled
    ELSE seqNext(yamlValue(item, Tail(lines), ind, "seq"), ind, acc)

\* The sequence whose dashes sit at indentation ind.
yamlParseSeq(lines, ind, acc) ==
    IF lines = <<>> THEN Ok(SeqNode(acc), <<>>)
    ELSE IF LeadingSpaces(Head(lines)) < ind THEN Ok(SeqNode(acc), lines)
    ELSE IF LeadingSpaces(Head(lines)) > ind \/ IsMarker(Head(lines)) THEN NotModelled
    ELSE IF ~IsSeqItem(TrimLeft(Head(lines))) THEN Ok(SeqNode(acc), lines)
    ELSE seqItem(TrimLeft(Tail(TrimLeft(Head(lines)))), lines, ind, acc)

\* The node that starts at the first of the lines, which is deeper than
\* parent: a sequence, a mapping, or a scalar.
blockOf(body, line, lines, parent) ==
    IF line.kind = "entry" THEN yamlParseMap(lines, LeadingSpaces(Head(lines)), <<>>)
    ELSE IF line.kind = "scalar" THEN yamlValue(body, Tail(lines), parent, "doc")
    ELSE Fail(line.kind)

yamlBlock(lines, parent) ==
    IF IsMarker(Head(lines)) THEN NotModelled
    ELSE IF IsSeqItem(TrimLeft(Head(lines)))
        THEN yamlParseSeq(lines, LeadingSpaces(Head(lines)), <<>>)
    ELSE IF TrimLeft(Head(lines))[1] \in {"{", "["}
        THEN yamlValue(TrimLeft(Head(lines)), Tail(lines), parent, "doc")
    ELSE blockOf(TrimLeft(Head(lines)), yamlLine(TrimLeft(Head(lines))), lines, parent)

\* What follows the document's node.  With nothing but blank lines and
\* comments after it the document is the node.  With more text after it (a
\* less indented line, a line after a flow collection, a marker) the outcome
\* is the library release's: parser.document() of decode.go either stops at
\* the document's end and decodes the node, or skips to the next event and
\* fails on what it finds.  This module does not follow either.
documentEnd(r) ==
    IF r.st # "ok" THEN r
    ELSE IF SkipBlank(r.rest) = <<>> THEN Ok(r.v, <<>>)
    ELSE NotModelled

documentBody(lines) ==
    IF lines = <<>> THEN Ok(NullNode, <<>>)
    ELSE IF Head(lines)[1] = "%" THEN NotModelled
    ELSE documentEnd(yamlBlock(lines, 0 - 1))

\* yaml.Unmarshal's parse of a text: an optional start marker, then one node.
yamlDocument(text) ==
    IF text # <<>> /\ text[Len(text)] # "\n" /\ Contains(text, <<"|">>) THEN NotModelled
    ELSE LET lines == SkipBlank(Lines(text))
         IN  IF lines # <<>> /\ TrimRight(Head(lines)) = <<"-","-","-">>
             THEN documentBody(SkipBlank(Tail(lines)))
             ELSE documentBody(lines)

\* --------------------------------------------------- the status record
\* configurationObject and configMap (utils.go of the same package): type
\* metadata embedded, object metadata and a string-to-string data mapping.
NilObject == [nil |-> TRUE]

ZeroObject ==
    [APIVersion |-> <<>>, Kind |-> <<>>,
     Metadata |-> [Name |-> <<>>, Namespace |-> <<>>],
     Data |-> <<>>]

configMap(namespace, name, data) ==
    [APIVersion |-> <<"v","1">>, Kind |-> <<"C","o","n","f","i","g","M","a","p">>,
     Metadata |-> [Name |-> name, Namespace |-> namespace],
     Data |-> data]

Entry(key, value) == <<[k |-> key, v |-> value]>>

OmitEmptyScalar(key, s) == IF s = <<>> THEN <<>> ELSE Entry(key, StrNode(s))

OmitEmptyMap(key, entries) == IF entries = <<>> THEN <<>> ELSE Entry(key, MapNode(entries))

\* yaml.Marshal(m.KubeSysConfig): the JSON form of the struct (empty
\* strings and an empty data mapping omitted, metadata always present),
\* written as YAML with every mapping's keys in the emitter's order.
marshalConfigurationObject(obj) ==
    LET keys == SortedKeys(DOMAIN obj.Data)
        data == Concat([i \in 1..Len(keys) |-> Entry(keys[i], StrNode(obj.Data[keys[i]]))])
        meta == OmitEmptyScalar(<<"n","a","m","e">>, obj.Metadata.Name)
                    \o OmitEmptyScalar(<<"n","a","m","e","s","p","a","c","e">>, obj.Metadata.Namespace)
    IN  yamlMarshal(OmitEmptyScalar(<<"a","p","i","V","e","r","s","i","o","n">>, obj.APIVersion)
                        \o OmitEmptyMap(<<"d","a","t","a">>, data)
                        \o OmitEmptyScalar(<<"k","i","n","d">>, obj.Kind)
                        \o Entry(<<"m","e","t","a","d","a","t","a">>, MapNode(meta)))

\* ghodss/yaml.Unmarshal: the YAML node becomes JSON (keys become strings; a
\* null key is an error) and encoding/json decodes it into the object.
RECURSIVE HasNullKey(_)
HasNullKey(n) ==
    \/ n.t = "map" /\ \E i \in 1..Len(n.m) : n.m[i].k.t = "null" \/ HasNullKey(n.m[i].v)
    \/ n.t = "seq" /\ \E i \in 1..Len(n.q) : HasNullKey(n.q[i])

KeyString(k) ==
    IF k.t = "str" THEN k.s
    ELSE IF k.t = "int" THEN FormatInt(k.i)
    ELSE IF k.t = "bool" THEN (IF k.b THEN <<"t","r","u","e">> ELSE <<"f","a","l","s","e">>)
    ELSE <<>>

\* A node the conversion is not followed on: a scalar whose value is not, a
\* float as a key, or two different keys that become one string (the one
\* that wins depends on Go's map iteration).
RECURSIVE HasUnmodelled(_)
HasUnmodelled(n) ==
    \/ n.t = "unmodelled"
    \/ n.t = "seq" /\ \E i \in 1..Len(n.q) : HasUnmodelled(n.q[i])
    \/ n.t = "map"
         /\ \/ \E i \in 1..Len(n.m) :
                   n.m[i].k.t \in {"float", "unmodelled"} \/ HasUnmodelled(n.m[i].v)
            \/ \E i, j \in 1..Len(n.m) :
                   n.m[i].k # n.m[j].k /\ KeyString(n.m[i].k) = KeyString(n.m[j].k)

KeysOf(entries) == {KeyString(entries[i].k) : i \in 1..Len(entries)}

\* The value of a key: its last entry's.
ValueOf(entries, key) ==
    entries[Max({i \in 1..Len(entries) : KeyString(entries[i].k) = key})].v

\* encoding/json's order for the keys of a map: by bytes.
RECURSIVE SortedStrings(_)
SortedStrings(S) ==
    IF S = {} THEN <<>>
    ELSE LET least == CHOOSE a \in S : \A b \in S : a = b \/ StrLess(a, b)
         IN  <<least>> \o SortedStrings(S \ {least})

Decoded(st, v) == [st |-> st, v |-> v]

Worse(a, b) ==
    IF "err" \in {a, b} THEN "err"
    ELSE IF "unmodelled" \in {a, b} THEN "unmodelled"
    ELSE "ok"

\* A value decoded into a string that holds cur.  ghodss turns a number or a
\* boolean into a string when it finds the target to be a string (hinted);
\* otherwise encoding/json rejects it.  null leaves the string as it is.
decodeString(node, cur, hinted) ==
    IF node.t = "str" THEN Decoded("ok", node.s)
    ELSE IF node.t = "null" THEN Decoded("ok", cur)
    ELSE IF node.t \in {"map", "seq"} THEN Decoded("err", cur)
    ELSE IF node.t = "unmodelled" THEN Decoded("unmodelled", cur)
    ELSE IF ~hinted THEN Decoded("err", cur)
    ELSE IF node.t = "int" THEN Decoded("ok", FormatInt(node.i))
    ELSE IF node.t = "bool" THEN Decoded("ok", IF node.b THEN <<"t","r","u","e">> ELSE <<"f","a","l","s","e">>)
    ELSE Decoded("unmodelled", cur)

\* The metadata struct: name and namespace, matched without regard to case.
metadataField(name, d, acc) ==
    Decoded(Worse(acc.st, d.st), [acc.v EXCEPT ![name] = d.v])

RECURSIVE decodeMetadataKeys(_, _, _)
decodeMetadataKeys(keys, entries, acc) ==
    IF keys = <<>> THEN acc
    ELSE decodeMetadataKeys(
             Tail(keys), entries,
             IF Lower(Head(keys)) = <<"n","a","m","e">>
                 THEN metadataField("Name",
                                    decodeString(ValueOf(entries, Head(keys)), acc.v.Name, TRUE),
                                    acc)
             ELSE IF Lower(Head(keys)) = <<"n","a","m","e","s","p","a","c","e">>
                 THEN metadataField("Namespace",
                                    decodeString(ValueOf(entries, Head(keys)),
                                                 acc.v.Namespace, TRUE),
                                    acc)
             ELSE acc)

decodeMetadata(node, cur) ==
    IF node.t = "null" THEN Decoded("ok", cur)
    ELSE IF node.t = "map"
        THEN decodeMetadataKeys(SortedStrings(KeysOf(node.m)), node.m, Decoded("ok", cur))
    ELSE Decoded("err", cur)

\* The data mapping: every key of the document is set, a null to "".
WorstOf(S) ==
    IF "err" \in S THEN "err" ELSE IF "unmodelled" \in S THEN "unmodelled" ELSE "ok"

decodeDataKeys(keys, values, cur) ==
    Decoded(WorstOf({values[k].st : k \in keys}),
            [k \in keys \cup DOMAIN cur |-> IF k \in keys THEN values[k].v ELSE cur[k]])

\* A null for the mapping itself leaves it nil, whatever it held.
decodeData(node, cur) ==
    IF node.t = "null" THEN Decoded("ok", <<>>)
    ELSE IF node.t = "map"
        THEN decodeDataKeys(KeysOf(node.m),
                            [k \in KeysOf(node.m) |->
                                decodeString(ValueOf(node.m, k), <<>>, TRUE)],
                            cur)
    ELSE Decoded("err", cur)

\* The object's fields.  kind and apiVersion are promoted from the embedded
\* struct, for which ghodss hands the embedded struct to its conversion and
\* so converts no number or boolean to a string.
objectField(name, d, acc) ==
    Decoded(Worse(acc.st, d.st), [acc.v EXCEPT ![name] = d.v])

RECURSIVE decodeObjectKeys(_, _, _)
decodeObjectKeys(keys, entries, acc) ==
    IF keys = <<>> THEN acc
    ELSE decodeObjectKeys(
             Tail(keys), entries,
             IF Lower(Head(keys)) = <<"k","i","n","d">>
                 THEN objectField("Kind",
                                  decodeString(ValueOf(entries, Head(keys)), acc.v.Kind, FALSE),
                                  acc)
             ELSE IF Lower(Head(keys)) = <<"a","p","i","v","e","r","s","i","o","n">>
                 THEN objectField("APIVersion",
                                  decodeString(ValueOf(entries, Head(keys)),
                                               acc.v.APIVersion, FALSE),
                                  acc)
             ELSE IF Lower(Head(keys)) = <<"m","e","t","a","d","a","t","a">>
                 THEN objectField("Metadata",
                                  decodeMetadata(ValueOf(entries, Head(keys)), acc.v.Metadata),
                                  acc)
             ELSE IF Lower(Head(keys)) = <<"d","a","t","a">>
                 THEN objectField("Data",
                                  decodeData(ValueOf(entries, Head(keys)), acc.v.Data),
                                  acc)
             ELSE acc)

Unmarshalled(d, into) ==
    [err |-> d.st = "err", unmodelled |-> d.st = "unmodelled",
     obj |-> IF d.st = "ok" THEN d.v ELSE into]

objectFromDocument(doc, into) ==
    IF doc.st # "ok" THEN Unmarshalled(Decoded(doc.st, into), into)
    ELSE IF HasNullKey(doc.v) THEN Unmarshalled(Decoded("err", into), into)
    ELSE IF doc.v.t = "null" THEN Unmarshalled(Decoded("ok", into), into)
    ELSE IF doc.v.t # "map" THEN Unmarshalled(Decoded("err", into), into)
    ELSE IF HasUnmodelled(doc.v) THEN Unmarshalled(Decoded("unmodelled", into), into)
    ELSE Unmarshalled(decodeObjectKeys(SortedStrings(KeysOf(doc.v.m)), doc.v.m,
                                       Decoded("ok", into)),
                      into)

\* yaml.Unmarshal(file.Data, kubeSysConfig): into is the object as it stands.
yamlUnmarshal(data, into) == objectFromDocument(yamlDocument(data), into)

\* ------------------------------------------------- the base configuration
\* types.InstallConfig as this file uses it: the pull secret, the control
\* plane's replica count, the names ClusterDomain() joins, and the pointer
\* Platform.VSphere (an address of the heap, 0 for nil).
NilAddr == 0

\* yaml.Marshal(config) of redactedInstallConfig; heap resolves the pointer.
marshalInstallConfig(config, heap) ==
    LET vs == heap[config.VSphere]
        platform == IF config.VSphere = NilAddr THEN <<>>
                    ELSE Entry(<<"v","s","p","h","e","r","e">>,
                               MapNode(Entry(<<"p","a","s","s","w","o","r","d">>, StrNode(vs.Password))
                                       \o Entry(<<"u","s","e","r","n","a","m","e">>, StrNode(vs.Username))
                                       \o Entry(<<"v","C","e","n","t","e","r">>, StrNode(vs.VCenter))))
    IN  yamlMarshal(Entry(<<"b","a","s","e","D","o","m","a","i","n">>, StrNode(config.BaseDomain))
                        \o Entry(<<"c","o","n","t","r","o","l","P","l","a","n","e">>, MapNode(Entry(<<"r","e","p","l","i","c","a","s">>, IntNode(config.Replicas))))
                        \o Entry(<<"m","e","t","a","d","a","t","a">>, MapNode(Entry(<<"n","a","m","e">>, StrNode(config.Name))))
                        \o Entry(<<"p","l","a","t","f","o","r","m">>, MapNode(platform))
                        \o Entry(<<"p","u","l","l","S","e","c","r","e","t">>, StrNode(config.PullSecret)))

FreshAddr(heap) == (CHOOSE a \in DOMAIN heap : \A b \in DOMAIN heap : b <= a) + 1

Redacted(y, config, heap) ==
    [data |-> y.text, unmodelled |-> y.unmodelled, err |-> FALSE,
     config |-> config, heap |-> heap]

redactedInstallConfig_InPlace(config, heap) ==
    LET c1 == [config EXCEPT !.PullSecret = <<>>]
        h1 == IF c1.VSphere # NilAddr
              THEN [heap EXCEPT ![c1.VSphere].Username = <<>>, ![c1.VSphere].Password = <<>>]
              ELSE heap
    IN  Redacted(marshalInstallConfig(c1, h1), c1, h1)

redactedInstallConfig_KeepsPassword(config, heap) ==
    LET c1 == [config EXCEPT !.PullSecret = <<>>]
        p == [heap[c1.VSphere] EXCEPT !.Username = <<>>]
        h2 == IF c1.VSphere # NilAddr THEN (FreshAddr(heap) :> p) @@ heap ELSE heap
        c2 == IF c1.VSphere # NilAddr THEN [c1 EXCEPT !.VSphere = FreshAddr(heap)] ELSE c1
    IN  Redacted(marshalInstallConfig(c2, h2), config, heap)

\* redactedInstallConfig: config is the callee's copy of the caller's struct;
\* the vSphere platform is copied to a fresh object before it is cleared.
\* Returns the serialized copy, and the caller's struct and heap as the call
\* leaves them.
redactedInstallConfig(config, heap) ==
    LET c1 == [config EXCEPT !.PullSecret = <<>>]
        p == [heap[c1.VSphere] EXCEPT !.Username = <<>>, !.Password = <<>>]
        h2 == IF c1.VSphere # NilAddr THEN (FreshAddr(heap) :> p) @@ heap ELSE heap
        c2 == IF c1.VSphere # NilAddr THEN [c1 EXCEPT !.VSphere = FreshAddr(heap)] ELSE c1
    IN  Redacted(marshalInstallConfig(c2, h2), config, heap)

\* ------------------------------------------------------ the template schema
\* InstallConfig.ClusterDomain(): the cluster name and the base domain.
ClusterDomain(config) == config.Name \o <<".">> \o config.BaseDomain

etcdEndpointHostnames_FromOne(replicas) ==
    [panic |-> replicas < 0, out |-> [i \in 1..replicas |-> <<"e","t","c","d","-">> \o Itoa(i)]]

\* Lines 164-167: make([]string, replicas), which panics for a negative
\* length; entry i is Sprintf("etcd-%d", i).
etcdEndpointHostnames(replicas) ==
    [panic |-> replicas < 0, out |-> [i \in 1..replicas |-> <<"e","t","c","d","-">> \o Itoa(i - 1)]]

\* Lines 169-190: the bootkubeTemplateData literal, reached when line 164
\* did not panic.
bootkubeTemplateData(config, clusterID, tls) ==
    [CVOClusterID          |-> clusterID,
     EtcdCaBundle          |-> base64Encode(tls.EtcdCABundle.Cert),
     EtcdCaCert            |-> tls.EtcdCA.Cert,
     EtcdClientCaCert      |-> base64Encode(tls.EtcdCA.Cert),
     EtcdClientCaKey       |-> base64Encode(tls.EtcdCA.Key),
     EtcdClientCert        |-> base64Encode(tls.EtcdClientCertKey.Cert),
     EtcdClientKey         |-> base64Encode(tls.EtcdClientCertKey.Key),
     EtcdEndpointDNSSuffix |-> ClusterDomain(config),
     EtcdEndpointHostnames |-> etcdEndpointHostnames(config.Replicas).out,
     EtcdMetricCaCert      |-> tls.EtcdMetricCABundle.Cert,
     EtcdMetricClientCert  |-> base64Encode(tls.EtcdMetricSignerClientCertKey.Cert),
     EtcdMetricClientKey   |-> base64Encode(tls.EtcdMetricSignerClientCertKey.Key),
     EtcdSignerCert        |-> base64Encode(tls.EtcdSignerCertKey.Cert),
     EtcdSignerClientCert  |-> base64Encode(tls.EtcdSignerClientCertKey.Cert),
     EtcdSignerClientKey   |-> base64Encode(tls.EtcdSignerClientCertKey.Key),
     EtcdSignerKey         |-> base64Encode(tls.EtcdSignerCertKey.Key),
     McsTLSCert            |-> base64Encode(tls.MCSCertKey.Cert),
     McsTLSKey             |-> base64Encode(tls.MCSCertKey.Key),
     PullSecretBase64      |-> base64Encode(config.PullSecret),
     RootCaCert            |-> tls.RootCA.Cert]

\* The string-valued fields of the schema by name, as a template sees them.
StringFields(td) ==
    (<<"C","V","O","C","l","u","s","t","e","r","I","D">> :> td.CVOClusterID) @@ (<<"E","t","c","d","C","a","B","u","n","d","l","e">> :> td.EtcdCaBundle)
    @@ (<<"E","t","c","d","C","a","C","e","r","t">> :> td.EtcdCaCert) @@ (<<"E","t","c","d","C","l","i","e","n","t","C","a","C","e","r","t">> :> td.EtcdClientCaCert)
    @@ (<<"E","t","c","d","C","l","i","e","n","t","C","a","K","e","y">> :> td.EtcdClientCaKey) @@ (<<"E","t","c","d","C","l","i","e","n","t","C","e","r","t">> :> td.EtcdClientCert)
    @@ (<<"E","t","c","d","C","l","i","e","n","t","K","e","y">> :> td.EtcdClientKey)
    @@ (<<"E","t","c","d","E","n","d","p","o","i","n","t","D","N","S","S","u","f","f","i","x">> :> td.EtcdEndpointDNSSuffix)
    @@ (<<"E","t","c","d","M","e","t","r","i","c","C","a","C","e","r","t">> :> td.EtcdMetricCaCert)
    @@ (<<"E","t","c","d","M","e","t","r","i","c","C","l","i","e","n","t","C","e","r","t">> :> td.EtcdMetricClientCert)
    @@ (<<"E","t","c","d","M","e","t","r","i","c","C","l","i","e","n","t","K","e","y">> :> td.EtcdMetricClientKey)
    @@ (<<"E","t","c","d","S","i","g","n","e","r","C","e","r","t">> :> td.EtcdSignerCert)
    @@ (<<"E","t","c","d","S","i","g","n","e","r","C","l","i","e","n","t","C","e","r","t">> :> td.EtcdSignerClientCert)
    @@ (<<"E","t","c","d","S","i","g","n","e","r","C","l","i","e","n","t","K","e","y">> :> td.EtcdSignerClientKey)
    @@ (<<"E","t","c","d","S","i","g","n","e","r","K","e","y">> :> td.EtcdSignerKey) @@ (<<"M","c","s","T","L","S","C","e","r","t">> :> td.McsTLSCert)
    @@ (<<"M","c","s","T","L","S","K","e","y">> :> td.McsTLSKey) @@ (<<"P","u","l","l","S","e","c","r","e","t","B","a","s","e","6","4">> :> td.PullSecretBase64)
    @@ (<<"R","o","o","t","C","a","C","e","r","t">> :> td.RootCaCert)

\* The schema as a template sees it: its fields by name, each a value.  A
\* value is tagged t: a string, an integer, a boolean, a list of strings,
\* the schema itself (root), a float (its value is not computed), or
\* "missing" for no value.
VStr(s) == [t |-> "str", s |-> s]

VInt(i) == [t |-> "int", i |-> i]

VBool(b) == [t |-> "bool", b |-> b]

VList(l) == [t |-> "list", l |-> l]

VRoot == [t |-> "root"]

VFloat == [t |-> "float"]

Missing == [t |-> "missing"]

Fields(td) ==
    [n \in DOMAIN StringFields(td) |-> VStr(StringFields(td)[n])]
        @@ (<<"E","t","c","d","E","n","d","p","o","i","n","t","H","o","s","t","n","a","m","e","s">> :> VList(td.EtcdEndpointHostnames))

\* ------------------------------------------------------ customTmplFuncs
\* Lines 33-35: add.  The operands here are far from the width of an int.
add(i, j) == i + j

\* -------------------------------------------------------- template lexing
\* text/template/parse/lex.go.  An action's tokens are tagged t: space,
\* field (s is the name), dot, var (s is the name with its $), ident, num
\* and str (s is the text), pipe, lparen, rparen, decl (:=) and comma.
Tok(t, s) == [t |-> t, s |-> s]

AlphaNumeric == Letters \cup Digits \cup {"_"}

HexDigits == {c \in Chars : DigitVal(c) < 16}

\* The length of the longest prefix of s made of characters of S.
Run(s, S) ==
    IF \A i \in 1..Len(s) : s[i] \in S THEN Len(s)
    ELSE Min({i \in 1..Len(s) : s[i] \notin S}) - 1

Drop(s, n) == SubSeq(s, n + 1, Len(s))

RightDelim == <<"}","}">>

LeftDelim == <<"{","{">>

\* atTerminator: what may follow a field, a variable or an identifier.
AtTerminator(rest) ==
    \/ rest = <<>>
    \/ rest[1] \in {" ", "\n", ".", ",", "|", ":", ")", "("}
    \/ HasPrefix(rest, RightDelim)

Lexed(st, toks, rest, trim) == [st |-> st, toks |-> toks, rest |-> rest, trim |-> trim]

LexFail(st) == Lexed(st, <<>>, <<>>, FALSE)

\* scanNumber: the length of the number at the head of rest: a sign, digits
\* (hexadecimal after 0x), a fraction, an exponent.
numberLength(rest) ==
    LET sign == IF rest[1] \in {"+", "-"} THEN 1 ELSE 0
        u == Drop(rest, sign)
        hex == Len(u) >= 2 /\ u[1] = "0" /\ u[2] \in {"x", "X"}
        int == IF hex THEN 2 + Run(Drop(u, 2), HexDigits) ELSE Run(u, Digits)
        afterInt == Drop(u, int)
        frac == IF afterInt # <<>> /\ afterInt[1] = "."
                THEN 1 + Run(Tail(afterInt), IF hex THEN HexDigits ELSE Digits)
                ELSE 0
        afterFrac == Drop(afterInt, frac)
        exp == IF afterFrac # <<>> /\ afterFrac[1] \in {"e", "E"}
               THEN 1 + (IF Len(afterFrac) >= 2 /\ afterFrac[2] \in {"+", "-"} THEN 1 ELSE 0)
                      + Run(Drop(afterFrac,
                                 1 + IF Len(afterFrac) >= 2 /\ afterFrac[2] \in {"+", "-"}
                                     THEN 1 ELSE 0),
                            Digits)
               ELSE 0
    IN  sign + int + frac + exp

\* What follows the number decides: a letter, digit or underscore is bad
\* syntax, except where later releases read more forms (underscores, 0b and
\* 0o, hexadecimal floats, imaginary numbers), which are not followed.
lexNumber(rest, n) ==
    IF Len(rest) > n /\ rest[n + 1] \in AlphaNumeric \cup {"+", "-"}
    THEN IF rest[n + 1] \in {"_", "i", "p", "P", "+", "-"}
              \/ (SubSeq(rest, 1, n) \in {<<"0">>, <<"+","0">>, <<"-","0">>}
                      /\ rest[n + 1] \in {"b", "B", "o", "O"})
         THEN [st |-> "unmodelled", tok |-> Tok("num", <<>>), n |-> n]
         ELSE [st |-> "err", tok |-> Tok("num", <<>>), n |-> n]
    ELSE [st |-> "ok", tok |-> Tok("num", SubSeq(rest, 1, n)), n |-> n]

\* lexQuote: the closing quote of the string that opens at s[1]; 0 when the
\* line or the text ends first.
RECURSIVE GoQuoteEnd(_, _)
GoQuoteEnd(s, j) ==
    IF j > Len(s) \/ s[j] = "\n" THEN 0
    ELSE IF s[j] = "\\" THEN IF j = Len(s) \/ s[j + 1] = "\n" THEN 0 ELSE GoQuoteEnd(s, j + 2)
    ELSE IF s[j] = "\"" THEN j
    ELSE GoQuoteEnd(s, j + 1)

\* strconv.Unquote on what stands between the quotes.
GoEscapes == {"a", "b", "f", "r", "t", "v", "x", "u", "U", "0", "1", "2", "3", "4", "5",
              "6", "7"}

RECURSIVE GoUnquote(_)
GoUnquote(s) ==
    IF s = <<>> THEN [st |-> "ok", s |-> <<>>]
    ELSE IF s[1] # "\\" THEN Prefixed(<<s[1]>>, GoUnquote(Tail(s)))
    ELSE IF Len(s) < 2 THEN [st |-> "err", s |-> <<>>]
    ELSE IF s[2] \in {"\\", "\"", "n"}
        THEN Prefixed(IF s[2] = "n" THEN <<"\n">> ELSE <<s[2]>>, GoUnquote(Drop(s, 2)))
    ELSE IF s[2] \in GoEscapes THEN [st |-> "unmodelled", s |-> <<>>]
    ELSE [st |-> "err", s |-> <<>>]

lexString(rest, end) ==
    IF end = 0 THEN [st |-> "err", tok |-> Tok("str", <<>>), n |-> 0]
    ELSE LET text == GoUnquote(SubSeq(rest, 2, end - 1))
         IN  [st |-> text.st, tok |-> Tok("str", text.s), n |-> end]

\* lexFieldOrVariable and lexIdentifier: the name is a run of letters,
\* digits and underscores that a terminator follows.
lexName(rest, kind, from, n) ==
    IF ~AtTerminator(Drop(rest, from + n)) \/ (n = 0 /\ kind = "ident")
    THEN [st |-> "err", tok |-> Tok(kind, <<>>), n |-> 0]
    ELSE [st |-> "ok",
          tok |-> Tok(kind, IF kind = "var" THEN SubSeq(rest, 1, from + n)
                            ELSE SubSeq(rest, from + 1, from + n)),
          n |-> from + n]

\* One token at the head of rest, which is no space and no delimiter: st,
\* the token, and its length.
lexToken(rest) ==
    IF rest[1] = "\"" THEN lexString(rest, GoQuoteEnd(rest, 2))
    ELSE IF rest[1] = "|" THEN [st |-> "ok", tok |-> Tok("pipe", <<>>), n |-> 1]
    ELSE IF rest[1] = "(" THEN [st |-> "ok", tok |-> Tok("lparen", <<>>), n |-> 1]
    ELSE IF rest[1] = ")" THEN [st |-> "ok", tok |-> Tok("rparen", <<>>), n |-> 1]
    ELSE IF rest[1] = "," THEN [st |-> "ok", tok |-> Tok("comma", <<>>), n |-> 1]
    ELSE IF rest[1] = ":"
        THEN [st |-> IF Len(rest) >= 2 /\ rest[2] = "=" THEN "ok" ELSE "err",
              tok |-> Tok("decl", <<>>), n |-> 2]
    ELSE IF rest[1] \in {"=", "'"} THEN [st |-> "unmodelled", tok |-> Tok("decl", <<>>), n |-> 1]
    ELSE IF rest[1] = "." /\ ~(Len(rest) >= 2 /\ rest[2] \in Digits)
        THEN IF AtTerminator(Tail(rest)) THEN [st |-> "ok", tok |-> Tok("dot", <<>>), n |-> 1]
             ELSE lexName(rest, "field", 1, Run(Tail(rest), AlphaNumeric))
    ELSE IF rest[1] = "$" THEN lexName(rest, "var", 1, Run(Tail(rest), AlphaNumeric))
    ELSE IF rest[1] \in Letters \cup {"_"} THEN lexName(rest, "ident", 0, Run(rest, AlphaNumeric))
    ELSE IF rest[1] \in Digits \cup {"+", "-", "."} THEN lexNumber(rest, numberLength(rest))
    ELSE [st |-> "err", tok |-> Tok("space", <<>>), n |-> 1]

\* lexInsideAction: the tokens up to the closing delimiter, the text after
\* it, and whether the delimiter carries a trim marker.  A run of spaces is
\* one token.  A line break inside an action ends the lexing with an error
\* in the releases before 1.16 and is a space in the later ones: the space
\* token keeps it (s is then not empty) for the caller to tell.
RECURSIVE lexAction(_, _)
lexNext(rest, toks, t) ==
    IF t.st # "ok" THEN LexFail(t.st)
    ELSE lexAction(Drop(rest, t.n), Append(toks, t.tok))

SpaceAdded(toks, c) ==
    IF toks # <<>> /\ toks[Len(toks)].t = "space"
    THEN IF c = "\n" THEN SubSeq(toks, 1, Len(toks) - 1) \o <<Tok("space", <<"\n">>)>> ELSE toks
    ELSE Append(toks, Tok("space", IF c = "\n" THEN <<"\n">> ELSE <<>>))

lexAction(rest, toks) ==
    IF rest = <<>> THEN LexFail("err")
    ELSE IF HasPrefix(rest, RightDelim) THEN Lexed("ok", toks, Drop(rest, 2), FALSE)
    ELSE IF HasPrefix(rest, <<" ","-","}","}">>) THEN Lexed("ok", toks, Drop(rest, 4), TRUE)
    ELSE IF HasPrefix(rest, <<"\n","-","}","}">>) THEN LexFail("unmodelled")
    ELSE IF rest[1] \in {" ", "\n"} THEN lexAction(Tail(rest), SpaceAdded(toks, rest[1]))
    ELSE lexNext(rest, toks, lexToken(rest))

\* lexComment: after the comment's end comes the closing delimiter.
lexComment(body, ends) ==
    IF ends = {} THEN LexFail("err")
    ELSE IF HasPrefix(Drop(body, Min(ends) + 1), RightDelim)
        THEN Lexed("ok", <<>>, Drop(body, Min(ends) + 3), FALSE)
    ELSE IF HasPrefix(Drop(body, Min(ends) + 1), <<" ","-","}","}">>)
        THEN Lexed("ok", <<>>, Drop(body, Min(ends) + 5), TRUE)
    ELSE LexFail("err")

\* The white space a trim marker removes.
TrimLeftSpace(s) == Drop(s, Run(s, {" ", "\n"}))

TrimRightSpace(s) ==
    IF \A i \in 1..Len(s) : s[i] \in {" ", "\n"} THEN <<>>
    ELSE SubSeq(s, 1, Max({i \in 1..Len(s) : s[i] \notin {" ", "\n"}}))

TextItem(s) == IF s = <<>> THEN <<>> ELSE <<[k |-> "text", s |-> s]>>

\* lexText and lexLeftDelim: the template as items, a text or an action's
\* tokens each.  trimmed says the text follows a trim marker; a comment
\* gives no item.
RECURSIVE templateFrom(_, _, _)
templateItem(lexed, comment, items) ==
    IF lexed.st # "ok" THEN [st |-> lexed.st, items |-> <<>>]
    ELSE templateFrom(lexed.rest, lexed.trim,
                      IF comment THEN items
                      ELSE Append(items, [k |-> "action", toks |-> lexed.toks]))

templateAction(body, items) ==
    IF HasPrefix(body, <<"/","*">>)
    THEN templateItem(lexComment(body, {i \in 3..(Len(body) - 1) :
                                           body[i] = "*" /\ body[i + 1] = "/"}),
                      TRUE, items)
    ELSE templateItem(lexAction(body, <<>>), FALSE, items)

templateFrom(rest, trimmed, items) ==
    LET text == IF trimmed THEN TrimLeftSpace(rest) ELSE rest
        at == Occurrences(text, LeftDelim)
        after == Drop(text, Min(at) + 1)
        marked == Len(after) >= 2 /\ after[1] = "-" /\ after[2] = " "
        before == SubSeq(text, 1, Min(at) - 1)
    IN  IF at = {} THEN [st |-> "ok", items |-> items \o TextItem(text)]
        ELSE IF HasPrefix(after, <<"-","\n">>) THEN [st |-> "unmodelled", items |-> <<>>]
        ELSE IF marked
            THEN templateAction(Drop(after, 2), items \o TextItem(TrimRightSpace(before)))
        ELSE templateAction(after, items \o TextItem(before))

\* ------------------------------------------------------- template parsing
\* newNumber of parse/node.go: the number a token stands for.  int says it
\* can be used as an integer, float that it is written as a float.
Number(st, int, i, float) == [st |-> st, int |-> int, i |-> i, float |-> float]

RECURSIVE Pow10(_)
Pow10(n) == IF n = 0 THEN 1 ELSE 10 * Pow10(n - 1)

AllZero(s) == \A i \in 1..Len(s) : s[i] = "0"

\* mant are the digits of the mantissa without its point, scale the power
\* of ten they are multiplied by.
floatNumber(text, mant, scale) ==
    IF Len(mant) > MaxDigits \/ scale > MaxDigits \/ scale < 0 - MaxDigits
        THEN Number("unmodelled", FALSE, 0, TRUE)
    ELSE IF scale >= 0
        THEN IF Len(mant) + scale > MaxDigits /\ ~AllZero(mant)
             THEN Number("unmodelled", FALSE, 0, TRUE)
             ELSE Number("ok", TRUE, Signed(text, DigitsValue(mant, 10) * Pow10(scale)), TRUE)
    ELSE IF 0 - scale >= Len(mant)
        THEN Number("ok", AllZero(mant), 0, TRUE)
    ELSE IF AllZero(SubSeq(mant, Len(mant) + scale + 1, Len(mant)))
        THEN Number("ok", TRUE,
                    Signed(text, DigitsValue(SubSeq(mant, 1, Len(mant) + scale), 10)), TRUE)
    ELSE Number("ok", FALSE, 0, TRUE)

newFloat(text, u) ==
    LET mant == Mantissa(u)
        exp == Exponent(u)
        digits == IntPart(mant) \o FracPart(mant)
    IN  IF ~IsDigits(digits) \/ (ExponentAt(u) # {} /\ ~IsDigits(Unsigned(exp)))
            THEN Number("err", FALSE, 0, TRUE)
        ELSE IF Len(Unsigned(exp)) > 1 THEN Number("unmodelled", FALSE, 0, TRUE)
        ELSE floatNumber(text, digits,
                         (IF exp = <<>> THEN 0
                          ELSE IF exp[1] = "-" THEN 0 - DigitsValue(Unsigned(exp), 10)
                          ELSE DigitsValue(Unsigned(exp), 10)) - Len(FracPart(mant)))

newInteger(text, int) ==
    IF int.st = "int" THEN Number("ok", TRUE, int.i, FALSE)
    ELSE IF int.st = "unmodelled" THEN Number("unmodelled", FALSE, 0, FALSE)
    ELSE Number("err", FALSE, 0, FALSE)

newNumber(text) ==
    LET u == Unsigned(text)
        hex == Len(u) >= 2 /\ u[1] = "0" /\ u[2] \in {"x", "X"}
    IN  IF hex /\ Contains(u, <<".">>) THEN Number("unmodelled", FALSE, 0, TRUE)
        ELSE IF hex \/ ~(\E i \in 1..Len(u) : u[i] \in {".", "e", "E"})
            THEN newInteger(text, strconvParseInt(text))
        ELSE newFloat(text, u)

\* The functions a template may call: customTmplFuncs and the built-in
\* ones, of which only some are followed here.
CustomFunctions == {<<"i","n","d","e","n","t">>, <<"a","d","d">>}

ModelledBuiltins == {<<"p","r","i","n","t">>, <<"l","e","n">>, <<"n","o","t">>, <<"e","q">>, <<"n","e">>}

OtherBuiltins == {<<"a","n","d">>, <<"o","r">>, <<"c","a","l","l">>, <<"h","t","m","l">>, <<"i","n","d","e","x">>, <<"s","l","i","c","e">>, <<"j","s">>, <<"p","r","i","n","t","f">>,
                  <<"p","r","i","n","t","l","n">>, <<"u","r","l","q","u","e","r","y">>, <<"g","e">>, <<"g","t">>, <<"l","e">>, <<"l","t">>}

Keywords == {<<"i","f">>, <<"e","l","s","e">>, <<"e","n","d">>, <<"r","a","n","g","e">>, <<"w","i","t","h">>, <<"d","e","f","i","n","e">>, <<"t","e","m","p","l","a","t","e">>, <<"b","l","o","c","k">>}

LaterKeywords == {<<"b","r","e","a","k">>, <<"c","o","n","t","i","n","u","e">>}

\* A parsed operand, command or pipeline: st, the node, and the tokens left.
Parsed(st, node, rest) == [st |-> st, node |-> node, rest |-> rest]

ParseFail(st) == Parsed(st, Missing, <<>>)

SkipSpace(ts) == IF ts # <<>> /\ Head(ts).t = "space" THEN Tail(ts) ELSE ts

\* The field tokens that directly follow: a chain.
ChainLength(ts) ==
    IF \A i \in 1..Len(ts) : ts[i].t = "field" THEN Len(ts)
    ELSE Min({i \in 1..Len(ts) : ts[i].t # "field"}) - 1

ChainNames(ts) == [i \in 1..ChainLength(ts) |-> ts[i].s]

OperandStart == {"field", "var", "dot", "num", "str", "ident", "lparen"}

RECURSIVE parsePipe(_, _, _, _)

\* A literal takes no field after it.
parseLiteral(node, st, rest) ==
    IF st # "ok" THEN ParseFail(st)
    ELSE IF rest # <<>> /\ rest[1].t = "field" THEN ParseFail("err")
    ELSE Parsed("ok", node, rest)

parseNumber(tok, num, rest) ==
    parseLiteral([t |-> "num", int |-> num.int, i |-> num.i, float |-> num.float],
                 num.st, rest)

parseIdent(tok, rest) ==
    IF tok.s \in {<<"t","r","u","e">>, <<"f","a","l","s","e">>}
        THEN parseLiteral([t |-> "bool", b |-> tok.s = <<"t","r","u","e">>], "ok", rest)
    ELSE IF tok.s = <<"n","i","l">> THEN parseLiteral([t |-> "nil"], "ok", rest)
    ELSE IF tok.s \in Keywords THEN ParseFail("err")
    ELSE IF tok.s \in LaterKeywords \cup OtherBuiltins THEN ParseFail("unmodelled")
    ELSE IF tok.s \notin CustomFunctions \cup ModelledBuiltins THEN ParseFail("err")
    ELSE IF rest # <<>> /\ rest[1].t = "field" THEN ParseFail("unmodelled")
    ELSE Parsed("ok", [t |-> "ident", s |-> tok.s], rest)

parseParen(p) ==
    IF p.st # "ok" THEN ParseFail(p.st)
    ELSE IF p.node.decl # <<>> \/ (p.rest # <<>> /\ p.rest[1].t = "field")
        THEN ParseFail("unmodelled")
    ELSE Parsed("ok", [t |-> "paren", pipe |-> p.node], p.rest)

\* operand and term of parse.go; ts starts with a token of OperandStart and
\* vs are the variables declared so far.
parseOperand(ts, vs) ==
    LET tok == Head(ts)
        rest == Tail(ts)
    IN  IF tok.t = "field"
            THEN Parsed("ok", [t |-> "field", names |-> ChainNames(ts)],
                        Drop(ts, ChainLength(ts)))
        ELSE IF tok.t = "var"
            THEN IF tok.s \notin vs THEN ParseFail("err")
                 ELSE Parsed("ok", [t |-> "var", s |-> tok.s, names |-> ChainNames(rest)],
                             Drop(rest, ChainLength(rest)))
        ELSE IF tok.t = "dot" THEN parseLiteral([t |-> "dot"], "ok", rest)
        ELSE IF tok.t = "str" THEN parseLiteral([t |-> "str", s |-> tok.s], "ok", rest)
        ELSE IF tok.t = "num" THEN parseNumber(tok, newNumber(tok.s), rest)
        ELSE IF tok.t = "ident" THEN parseIdent(tok, rest)
        ELSE parseParen(parsePipe(rest, vs, "parenthesized pipeline", "rparen"))

\* command of parse.go: operands separated by spaces, up to a pipe, a right
\* parenthesis or the end.  The node is the list of operands; piped says a
\* pipe ended it.
Command(st, args, rest, piped) == [st |-> st, args |-> args, rest |-> rest, piped |-> piped]

RECURSIVE parseCommand(_, _, _)
commandEnd(ts, args) ==
    IF ts = <<>> \/ ts[1].t = "rparen"
        THEN Command(IF args = <<>> THEN "err" ELSE "ok", args, ts, FALSE)
    ELSE IF ts[1].t = "pipe"
        THEN Command(IF args = <<>> THEN "err" ELSE "ok", args, Tail(ts), TRUE)
    ELSE Command("err", args, ts, FALSE)

commandNext(o, vs, args) ==
    IF o.st # "ok" THEN Command(o.st, args, <<>>, FALSE)
    ELSE IF o.rest # <<>> /\ o.rest[1].t = "space"
        THEN parseCommand(Tail(o.rest), vs, Append(args, o.node))
    ELSE commandEnd(o.rest, Append(args, o.node))

parseCommand(ts, vs, args) ==
    IF SkipSpace(ts) # <<>> /\ SkipSpace(ts)[1].t \in OperandStart
    THEN commandNext(parseOperand(SkipSpace(ts), vs), vs, args)
    ELSE commandEnd(SkipSpace(ts), args)

\* checkPipeline: a pipeline has a command, and no command after the first
\* starts with a literal.
checkPipeline(decl, cmds, rest) ==
    IF cmds = <<>> THEN ParseFail("err")
    ELSE IF \E i \in 2..Len(cmds) : cmds[i][1].t \in {"bool", "dot", "nil", "num", "str"}
        THEN ParseFail("err")
    ELSE Parsed("ok", [decl |-> decl, cmds |-> cmds], rest)

\* The commands of a pipeline; end is what closes it ("eof" for an action,
\* "rparen" inside parentheses) and piped says a pipe came last, which is
\* not followed when nothing comes after it.
RECURSIVE parseCommands(_, _, _, _, _, _)
commandsNext(c, vs, end, decl, cmds) ==
    IF c.st # "ok" THEN ParseFail(c.st)
    ELSE parseCommands(c.rest, vs, end, decl, Append(cmds, c.args), c.piped)

parseCommands(ts, vs, end, decl, cmds, piped) ==
    IF SkipSpace(ts) = <<>>
        THEN IF end # "eof" THEN ParseFail("err")
             ELSE IF piped THEN ParseFail("unmodelled")
             ELSE checkPipeline(decl, cmds, <<>>)
    ELSE IF SkipSpace(ts)[1].t = "rparen"
        THEN IF end # "rparen" THEN ParseFail("err")
             ELSE IF piped THEN ParseFail("unmodelled")
             ELSE checkPipeline(decl, cmds, Tail(SkipSpace(ts)))
    ELSE IF SkipSpace(ts)[1].t \in OperandStart
        THEN commandsNext(parseCommand(SkipSpace(ts), vs, <<>>), vs, end, decl, cmds)
    ELSE ParseFail("err")

\* pipeline of parse.go: declarations ($x := or, in a range, $i, $x :=),
\* then the commands.
parsePipe(ts, vs, context, end) ==
    LET t1 == SkipSpace(ts)
        t2 == SkipSpace(Tail(t1))
        t3 == SkipSpace(Tail(t2))
        t4 == SkipSpace(Tail(t3))
    IN  IF t1 # <<>> /\ t1[1].t = "var" /\ t2 # <<>> /\ t2[1].t = "decl"
            THEN parseCommands(Tail(t2), vs \cup {t1[1].s}, end, <<t1[1].s>>, <<>>, FALSE)
        ELSE IF t1 # <<>> /\ t1[1].t = "var" /\ t2 # <<>> /\ t2[1].t = "comma"
            THEN IF context # "range" THEN ParseFail("err")
                 ELSE IF t3 # <<>> /\ t3[1].t = "var" /\ t4 # <<>> /\ t4[1].t = "decl"
                     THEN parseCommands(Tail(t4), vs \cup {t1[1].s, t3[1].s}, end,
                                        <<t1[1].s, t3[1].s>>, <<>>, FALSE)
                 ELSE ParseFail("unmodelled")
        ELSE parseCommands(ts, vs, end, <<>>, <<>>, FALSE)

\* itemList and the control structures of parse.go.  A list of nodes ends at
\* the end of the template ("eof"), at {{end}}, at {{else}} or at
\* {{else if ...}} (toks are then the tokens after the if).  A node is a
\* text, an action, or an if, with or range with its pipeline, its list and
\* its else list.
List(st, nodes, rest, vs, end, toks) ==
    [st |-> st, nodes |-> nodes, rest |-> rest, vs |-> vs, end |-> end, toks |-> toks]

ListFail(st) == List(st, <<>>, <<>>, {}, "eof", <<>>)

IsWord(ts, word) == ts # <<>> /\ ts[1].t = "ident" /\ ts[1].s = word

Declared(vs, pipe) == vs \cup {pipe.decl[i] : i \in 1..Len(pipe.decl)}

Control(st, node, rest) == [st |-> st, node |-> node, rest |-> rest]

ControlNode(kind, pipe, list, else) ==
    [k |-> kind, pipe |-> pipe, list |-> list, else |-> else]

RECURSIVE templateNodes(_, _, _)
RECURSIVE controlPipe(_, _, _, _)

controlElse(kind, pipe, body, else) ==
    IF else.st # "ok" THEN Control(else.st, Missing, <<>>)
    ELSE IF else.end # "end" THEN Control("err", Missing, <<>>)
    ELSE Control("ok", ControlNode(kind, pipe, body, else.nodes), else.rest)

\* An if written after an else is the else list's only node, and its
\* {{end}} closes the outer structure too.
controlElseIf(kind, pipe, body, inner) ==
    IF inner.st # "ok" THEN inner
    ELSE Control("ok", ControlNode(kind, pipe, body, <<inner.node>>), inner.rest)

controlBody(kind, pipe, body) ==
    IF body.st # "ok" THEN Control(body.st, Missing, <<>>)
    ELSE IF body.end = "end"
        THEN Control("ok", ControlNode(kind, pipe, body.nodes, <<>>), body.rest)
    ELSE IF body.end = "else"
        THEN controlElse(kind, pipe, body.nodes, templateNodes(body.rest, body.vs, <<>>))
    ELSE IF body.end = "elseif" /\ kind = "if"
        THEN controlElseIf(kind, pipe, body.nodes,
                           controlPipe("if", parsePipe(body.toks, body.vs, "if", "eof"),
                                       body.rest, body.vs))
    ELSE Control("err", Missing, <<>>)

\* parseControl: the structure's pipeline, its list and its else list; the
\* variables it declares go out of scope at its end.
controlPipe(kind, p, items, vs) ==
    IF p.st # "ok" THEN Control(p.st, Missing, <<>>)
    ELSE controlBody(kind, p.node, templateNodes(items, Declared(vs, p.node), <<>>))

controlDone(c, vs, nodes) ==
    IF c.st # "ok" THEN ListFail(c.st)
    ELSE templateNodes(c.rest, vs, Append(nodes, c.node))

actionPipe(p, items, vs, nodes) ==
    IF p.st # "ok" THEN ListFail(p.st)
    ELSE templateNodes(items, Declared(vs, p.node),
                       Append(nodes, [k |-> "action", pipe |-> p.node]))

templateAct(ts, items, vs, nodes) ==
    IF IsWord(ts, <<"e","n","d">>)
        THEN IF SkipSpace(Tail(ts)) # <<>> THEN ListFail("err")
             ELSE List("ok", nodes, items, vs, "end", <<>>)
    ELSE IF IsWord(ts, <<"e","l","s","e">>)
        THEN IF SkipSpace(Tail(ts)) = <<>> THEN List("ok", nodes, items, vs, "else", <<>>)
             ELSE IF IsWord(SkipSpace(Tail(ts)), <<"i","f">>)
                 THEN List("ok", nodes, items, vs, "elseif", Tail(SkipSpace(Tail(ts))))
             ELSE IF IsWord(SkipSpace(Tail(ts)), <<"w","i","t","h">>) THEN ListFail("unmodelled")
             ELSE ListFail("err")
    ELSE IF IsWord(ts, <<"i","f">>) \/ IsWord(ts, <<"w","i","t","h">>) \/ IsWord(ts, <<"r","a","n","g","e">>)
        THEN controlDone(controlPipe(IF IsWord(ts, <<"i","f">>) THEN "if"
                                     ELSE IF IsWord(ts, <<"w","i","t","h">>) THEN "with"
                                     ELSE "range",
                                     parsePipe(Tail(ts), vs,
                                               IF IsWord(ts, <<"r","a","n","g","e">>) THEN "range"
                                               ELSE "if",
                                               "eof"),
                                     items, vs),
                         vs, nodes)
    ELSE IF IsWord(ts, <<"d","e","f","i","n","e">>) \/ IsWord(ts, <<"t","e","m","p","l","a","t","e">>) \/ IsWord(ts, <<"b","l","o","c","k">>)
        THEN ListFail("unmodelled")
    ELSE actionPipe(parsePipe(ts, vs, "command", "eof"), items, vs, nodes)

templateNodes(items, vs, nodes) ==
    IF items = <<>> THEN List("ok", nodes, <<>>, vs, "eof", <<>>)
    ELSE IF Head(items).k = "text"
        THEN templateNodes(Tail(items), vs, Append(nodes, Head(items)))
    ELSE templateAct(SkipSpace(Head(items).toks), Tail(items), vs, nodes)

\* Whether an action of the template holds a line break.
BreakInAction(items) ==
    \E i \in 1..Len(items) :
        /\ items[i].k = "action"
        /\ \E j \in 1..Len(items[i].toks) :
               items[i].toks[j].t = "space" /\ items[i].toks[j].s # <<>>

\* Template.Parse: the template's nodes; a list that ends other than at
\* the end of the text is an error.
parsedTemplate(lexed) ==
    IF lexed.st # "ok" THEN ListFail(lexed.st)
    ELSE LET list == templateNodes(lexed.items, {<<"$">>}, <<>>)
         IN  IF list.st = "ok" /\ list.end # "eof" THEN ListFail("err")
             ELSE IF list.st = "ok" /\ BreakInAction(lexed.items)
                 THEN List("break", list.nodes, <<>>, list.vs, "eof", <<>>)
             ELSE list

templateParse(data) == parsedTemplate(templateFrom(data, FALSE, <<>>))
\* ----------------------------------------------------- template execution
\* text/template/exec.go.  A value comes with st: "ok", "err" for an error
\* of the execution, "unmodelled" for what is not followed here.
Value(st, v) == [st |-> st, v |-> v]

\* The value of a variable: the last one pushed under the name.
VarAt(vars, name) == {i \in 1..Len(vars) : vars[i].name = name}

\* evalField: only the schema has fields, and a field takes no arguments.
evalField(receiver, names, hasArgs, td) ==
    IF receiver.t = "root" /\ Len(names) = 1 /\ names[1] \in DOMAIN Fields(td) /\ ~hasArgs
    THEN Value("ok", Fields(td)[names[1]])
    ELSE Value("err", Missing)

evalVariable(node, vars, hasArgs, td) ==
    IF VarAt(vars, node.s) = {} THEN Value("err", Missing)
    ELSE IF node.names = <<>>
        THEN IF hasArgs THEN Value("err", Missing)
             ELSE Value("ok", vars[Max(VarAt(vars, node.s))].v)
    ELSE evalField(vars[Max(VarAt(vars, node.s))].v, node.names, hasArgs, td)

\* printValue and fmt.Sprint of one value.
FormatList(list) ==
    <<"[">> \o Concat([i \in 1..Len(list) |->
                       (IF i = 1 THEN <<>> ELSE <<" ">>) \o list[i]]) \o <<"]">>

printValue(v) ==
    IF v.t = "str" THEN Value("ok", v.s)
    ELSE IF v.t = "int" THEN Value("ok", FormatInt(v.i))
    ELSE IF v.t = "bool" THEN Value("ok", IF v.b THEN <<"t","r","u","e">> ELSE <<"f","a","l","s","e">>)
    ELSE IF v.t = "list" THEN Value("ok", FormatList(v.l))
    ELSE Value("unmodelled", <<>>)

\* isTrue.
truth(v) ==
    IF v.t = "str" THEN Value("ok", v.s # <<>>)
    ELSE IF v.t = "int" THEN Value("ok", v.i # 0)
    ELSE IF v.t = "bool" THEN Value("ok", v.b)
    ELSE IF v.t = "list" THEN Value("ok", v.l # <<>>)
    ELSE IF v.t = "root" THEN Value("ok", TRUE)
    ELSE Value("unmodelled", FALSE)

\* evalArg: the value handed to a parameter of type typ ("int", "string" or
\* "any") for the operand node with value val.  A literal must be of the
\* parameter's type; any other operand's value must be.
evalArg(typ, node, val) ==
    IF val.st # "ok" THEN val
    ELSE IF typ = "any"
        THEN IF node.t = "nil" THEN Value("unmodelled", Missing) ELSE val
    ELSE IF node.t \in {"num", "str", "bool", "nil"}
        THEN IF typ = "int" /\ node.t = "num" /\ node.int THEN Value("ok", VInt(node.i))
             ELSE IF typ = "string" /\ node.t = "str" THEN val
             ELSE Value("err", Missing)
    ELSE IF val.v.t = (IF typ = "int" THEN "int" ELSE "str") THEN val
    ELSE Value("err", Missing)

\* validateType for the value a pipeline hands on as the last argument.
evalFinal(typ, final) ==
    IF typ = "any" \/ final.t = (IF typ = "int" THEN "int" ELSE "str")
    THEN Value("ok", final)
    ELSE Value("err", Missing)

\* The parameters of a function called with n arguments, and whether it
\* can be called with n: indent, add and ne take two, len and not one, eq
\* two or more, print any number (none included).
Accepts(ok, types) == [ok |-> ok, types |-> types]

Parameters(name, n) ==
    IF name = <<"i","n","d","e","n","t">> THEN Accepts(n = 2, <<"int", "string">>)
    ELSE IF name = <<"a","d","d">> THEN Accepts(n = 2, <<"int", "int">>)
    ELSE IF name \in {<<"l","e","n">>, <<"n","o","t">>} THEN Accepts(n = 1, <<"any">>)
    ELSE IF name = <<"n","e">> THEN Accepts(n = 2, <<"any", "any">>)
    ELSE IF name = <<"e","q">> THEN Accepts(n >= 2, [i \in 1..n |-> "any"])
    ELSE Accepts(TRUE, [i \in 1..n |-> "any"])

Worst(vals) ==
    IF \E i \in 1..Len(vals) : vals[i].st = "unmodelled" THEN "unmodelled"
    ELSE IF \E i \in 1..Len(vals) : vals[i].st = "err" THEN "err"
    ELSE "ok"

\* fmt.Sprint: a space between two operands when neither is a string.
Sprint(args, texts) ==
    Concat([i \in 1..Len(args) |->
               (IF i > 1 /\ args[i].t # "str" /\ args[i - 1].t # "str" THEN <<" ">> ELSE <<>>)
                   \o texts[i].v])

sprintCall(args, texts) ==
    IF Worst(texts) # "ok" THEN Value(Worst(texts), Missing)
    ELSE Value("ok", VStr(Sprint(args, texts)))

indentResult(r) ==
    IF r.panic THEN Value("err", Missing) ELSE Value("ok", VStr(r.out))

lenCall(v) ==
    IF v.t = "str" THEN Value("ok", VInt(Len(v.s)))
    ELSE IF v.t = "list" THEN Value("ok", VInt(Len(v.l)))
    ELSE IF v.t = "float" THEN Value("unmodelled", Missing)
    ELSE Value("err", Missing)

notCall(t) ==
    IF t.st # "ok" THEN Value(t.st, Missing) ELSE Value("ok", VBool(~t.v))

\* eq of funcs.go: the first argument against each of the others; values of
\* different basic kinds do not compare.
Basic == {"str", "int", "bool"}

SameKind(a, b) == a.t = b.t

\* The arguments that end the comparison: one of another kind, an error,
\* or one equal to the first.
Deciding(args) ==
    {i \in 2..Len(args) : IF SameKind(args[i], args[1]) THEN args[i] = args[1] ELSE TRUE}

eqCall(args) ==
    IF \E i \in 1..Len(args) : args[i].t \in {"root", "float", "missing"}
        THEN Value("unmodelled", Missing)
    ELSE IF args[1].t \notin Basic THEN Value("err", Missing)
    ELSE IF Deciding(args) = {} THEN Value("ok", VBool(FALSE))
    ELSE IF ~SameKind(args[Min(Deciding(args))], args[1]) THEN Value("err", Missing)
    ELSE Value("ok", VBool(TRUE))

negated(r) == IF r.st # "ok" THEN r ELSE Value("ok", VBool(~r.v.b))

\* evalCall: the function applied to its arguments, which are all "ok".
callFunction(name, args) ==
    IF name = <<"i","n","d","e","n","t">> THEN indentResult(indent(args[1].i, args[2].s))
    ELSE IF name = <<"a","d","d">> THEN Value("ok", VInt(add(args[1].i, args[2].i)))
    ELSE IF name = <<"p","r","i","n","t">> THEN sprintCall(args, [i \in 1..Len(args) |-> printValue(args[i])])
    ELSE IF name = <<"l","e","n">> THEN lenCall(args[1])
    ELSE IF name = <<"n","o","t">> THEN notCall(truth(args[1]))
    ELSE IF name = <<"e","q">> THEN eqCall(args)
    ELSE negated(eqCall(args))

evalCall(name, vals) ==
    IF Worst(vals) # "ok" THEN Value(Worst(vals), Missing)
    ELSE callFunction(name, [i \in 1..Len(vals) |-> vals[i].v])

\* The largest integer a template computes with here.
MaxInt == 1000000

Bounded(r) ==
    IF r.st = "ok" /\ r.v.t = "int" /\ (r.v.i > MaxInt \/ r.v.i < 0 - MaxInt)
    THEN Value("unmodelled", Missing)
    ELSE r

\* evalPipeline, evalCommand and evalArg.  dot is the value of the dot, vars
\* the variables (name and v), final the value the command before hands on
\* ("missing" for the first command).  A parenthesized pipeline that is given
\* arguments is evaluated without them by some releases and is an error in
\* others, so it is not followed.
RECURSIVE evalPipeline(_, _, _, _)
RECURSIVE evalCommand(_, _, _, _, _)

evalOperand(node, dot, vars, td) ==
    IF node.t = "field" THEN evalField(dot, node.names, FALSE, td)
    ELSE IF node.t = "var" THEN evalVariable(node, vars, FALSE, td)
    ELSE IF node.t = "dot" THEN Value("ok", dot)
    ELSE IF node.t = "str" THEN Value("ok", VStr(node.s))
    ELSE IF node.t = "bool" THEN Value("ok", VBool(node.b))
    ELSE IF node.t = "num"
        THEN Value("ok", IF node.float THEN VFloat ELSE VInt(node.i))
    ELSE IF node.t = "nil" THEN Value("ok", Missing)
    ELSE IF node.t = "paren" THEN evalPipeline(node.pipe, dot, vars, td)
    ELSE evalCommand(<<node>>, dot, vars, td, Missing)

evalFunction(name, argNodes, params, dot, vars, td, final) ==
    IF ~params.ok THEN Value("err", Missing)
    ELSE evalCall(name,
                  [i \in 1..Len(params.types) |->
                      IF i <= Len(argNodes)
                      THEN evalArg(params.types[i], argNodes[i],
                                   evalOperand(argNodes[i], dot, vars, td))
                      ELSE evalFinal(params.types[i], final)])

evalCommand(args, dot, vars, td, final) ==
    LET first == args[1]
        hasArgs == Len(args) > 1 \/ final.t # "missing"
    IN  IF first.t = "field" THEN evalField(dot, first.names, hasArgs, td)
        ELSE IF first.t = "var" THEN evalVariable(first, vars, hasArgs, td)
        ELSE IF first.t = "ident"
            THEN Bounded(evalFunction(first.s, Tail(args),
                                      Parameters(first.s,
                                                 Len(args) - 1
                                                     + IF final.t = "missing" THEN 0 ELSE 1),
                                      dot, vars, td, final))
        ELSE IF first.t = "paren"
            THEN IF hasArgs THEN Value("unmodelled", Missing)
                 ELSE evalOperand(first, dot, vars, td)
        ELSE IF hasArgs \/ first.t = "nil" THEN Value("err", Missing)
        ELSE evalOperand(first, dot, vars, td)

RECURSIVE evalCommands(_, _, _, _, _)
evalCommands(cmds, dot, vars, td, acc) ==
    IF cmds = <<>> \/ acc.st # "ok" THEN acc
    ELSE evalCommands(Tail(cmds), dot, vars, td,
                      evalCommand(Head(cmds), dot, vars, td, acc.v))

evalPipeline(pipe, dot, vars, td) ==
    evalCommands(pipe.cmds, dot, vars, td, Value("ok", Missing))

\* walk: what the nodes write.  The state is st, the text written and the
\* variables.
State(st, out, vars) == [st |-> st, out |-> out, vars |-> vars]

Var(name, v) == [name |-> name, v |-> v]

RECURSIVE walk(_, _, _, _)

\* An action writes its pipeline's value, or sets the variable it declares.
walkAction(node, val, text, acc) ==
    IF val.st # "ok" THEN State(val.st, acc.out, acc.vars)
    ELSE IF node.pipe.decl # <<>>
        THEN State("ok", acc.out, Append(acc.vars, Var(node.pipe.decl[1], val.v)))
    ELSE IF text.st # "ok" THEN State(text.st, acc.out, acc.vars)
    ELSE State("ok", acc.out \o text.v, acc.vars)

\* The variables of a structure end with it.
Popped(r, vars) == State(r.st, r.out, vars)

\* evalPipeline pushes every variable the pipeline declares, set to the
\* pipeline's value.
Pushed(acc, pipe, v) ==
    State(acc.st, acc.out,
          acc.vars \o [i \in 1..Len(pipe.decl) |-> Var(pipe.decl[i], v)])

\* walkIfOrWith: the list or the else list, either with the variable the
\* pipeline declared.
walkIfOrWith(node, val, t, dot, td, acc) ==
    IF val.st # "ok" THEN State(val.st, acc.out, acc.vars)
    ELSE IF t.st # "ok" THEN State(t.st, acc.out, acc.vars)
    ELSE IF t.v
        THEN Popped(walk(node.list, IF node.k = "with" THEN val.v ELSE dot, td,
                         Pushed(acc, node.pipe, val.v)),
                    acc.vars)
    ELSE Popped(walk(node.else, dot, td, Pushed(acc, node.pipe, val.v)), acc.vars)

\* walkRange over a list of strings: the list once for each element, the
\* dot set to it, the declared variables to the index and the element.  For
\* an empty list the else list, the declared variables still set to the
\* pipeline's value.
RangeVars(acc, decl, i, elem) ==
    IF decl = <<>> THEN acc
    ELSE IF Len(decl) = 1 THEN State(acc.st, acc.out, Append(acc.vars, Var(decl[1], elem)))
    ELSE State(acc.st, acc.out,
               acc.vars \o <<Var(decl[1], VInt(i)), Var(decl[2], elem)>>)

RECURSIVE walkElements(_, _, _, _, _)
walkElements(node, list, i, td, acc) ==
    IF i > Len(list) \/ acc.st # "ok" THEN acc
    ELSE walkElements(node, list, i + 1, td,
                      Popped(walk(node.list, VStr(list[i]), td,
                                  RangeVars(acc, node.pipe.decl, i - 1, VStr(list[i]))),
                             acc.vars))

walkRange(node, val, dot, td, acc) ==
    IF val.st # "ok" THEN State(val.st, acc.out, acc.vars)
    ELSE IF val.v.t = "list"
        THEN IF val.v.l = <<>>
             THEN Popped(walk(node.else, dot, td, Pushed(acc, node.pipe, val.v)), acc.vars)
             ELSE walkElements(node, val.v.l, 1, td, acc)
    ELSE IF val.v.t \in {"str", "bool", "root"} THEN State("err", acc.out, acc.vars)
    ELSE State("unmodelled", acc.out, acc.vars)

walkPrinted(node, val, acc) ==
    walkAction(node, val, IF val.st = "ok" THEN printValue(val.v) ELSE val, acc)

walkTested(node, val, dot, td, acc) ==
    walkIfOrWith(node, val, IF val.st = "ok" THEN truth(val.v) ELSE val, dot, td, acc)

walkNode(node, dot, td, acc) ==
    IF node.k = "text" THEN State("ok", acc.out \o node.s, acc.vars)
    ELSE IF node.k = "action"
        THEN walkPrinted(node, evalPipeline(node.pipe, dot, acc.vars, td), acc)
    ELSE IF node.k = "range"
        THEN walkRange(node, evalPipeline(node.pipe, dot, acc.vars, td), dot, td, acc)
    ELSE walkTested(node, evalPipeline(node.pipe, dot, acc.vars, td), dot, td, acc)

walk(nodes, dot, td, acc) ==
    IF nodes = <<>> \/ acc.st # "ok" THEN acc
    ELSE walk(Tail(nodes), dot, td, walkNode(Head(nodes), dot, td, acc))

\* Template.Execute with the schema as the dot and as $.
templateExecute(nodes, td) == walk(nodes, VRoot, td, State("ok", <<>>, <<Var(<<"$">>, VRoot)>>))

\* --------------------------------------------------- applyTemplateData
\* Lines 224-231.  template.Must panics when the template does not parse
\* (line 225) and line 228 panics when it does not execute; otherwise the
\* buffer's bytes are returned.  A template with a line break in an action
\* ("break") panics in the earlier releases; the result is followed only
\* when it panics in the later ones too.
executedOrPanic(exec) ==
    [panic |-> exec.st = "err", unmodelled |-> exec.st = "unmodelled",
     out |-> IF exec.st = "ok" THEN exec.out ELSE <<>>]

brokenOrPanic(r) == [panic |-> r.panic, unmodelled |-> ~r.panic, out |-> <<>>]

parsedOrPanic(parsed, td) ==
    IF parsed.st = "break" THEN brokenOrPanic(executedOrPanic(templateExecute(parsed.nodes, td)))
    ELSE IF parsed.st # "ok"
    THEN [panic |-> parsed.st = "err", unmodelled |-> parsed.st = "unmodelled", out |-> <<>>]
    ELSE executedOrPanic(templateExecute(parsed.nodes, td))

applyTemplateData(data, templateData) == parsedOrPanic(templateParse(data), templateData)

\* ---------------------------------------------------------------- Generate
File(name, data) == [Filename |-> name, Data |-> data]

\* Line 216: the path of a templated file.
bootkubeFilename(name) ==
    filepathJoin(manifestDir, stringsTrimSuffix(filepathBase(name), <<".","t","e","m","p","l","a","t","e">>))

\* Lines 213-219: every template file renamed and bound; bound[i] is what
\* applyTemplateData gave for the i-th.  The first binding that panics ends
\* the call; so does, for what is followed here, the first one that is not
\* followed.
Stopping(bound) == {i \in 1..Len(bound) : bound[i].panic \/ bound[i].unmodelled}

boundFiles(templates, templateData, bound) ==
    [panic |-> Stopping(bound) # {} /\ bound[Min(Stopping(bound))].panic,
     unmodelled |-> Stopping(bound) # {} /\ bound[Min(Stopping(bound))].unmodelled,
     templateData |-> templateData,
     files |-> [i \in 1..Len(templates) |->
                   File(bootkubeFilename(templates[i].Filename), bound[i].out)]]

bindTemplates(templates, templateData) ==
    boundFiles(templates, templateData,
               [i \in 1..Len(templates) |->
                   applyTemplateData(templates[i].Data, templateData)])

\* generateBootKubeManifests: the hostnames, whose make ends the call with a
\* panic for a negative replica count before anything is bound; then the
\* schema, then the files of the template producers in the order of the
\* list of lines 193-212 (templates is those files in that order).
generateBootKubeManifests(config, clusterID, tls, templates) ==
    IF etcdEndpointHostnames(config.Replicas).panic
    THEN [panic |-> TRUE, unmodelled |-> FALSE, templateData |-> NilObject, files |-> <<>>]
    ELSE bindTemplates(templates, bootkubeTemplateData(config, clusterID, tls))

mergedFiles_IngressTwice(own, deps) ==
    own \o deps.ingress \o deps.ingress \o deps.network \o deps.infra

\* Lines 121-126: the appends after the status record's file.
mergedFiles(own, deps) ==
    own \o deps.ingress \o deps.dns \o deps.network \o deps.infra

NoError == "nil"

\* What Generate leaves when it returns nil: the asset with the sorted list.
generated(ksc, after, red, status, bk, sorted) ==
    [m |-> [KubeSysConfig |-> ksc, FileList |-> sorted],
     deps |-> after, err |-> NoError, panic |-> FALSE,
     templateData |-> bk.templateData,
     unmodelled |-> red.unmodelled \/ status.unmodelled \/ bk.unmodelled]

generateFiles_NoSort(m, after, red, ksc, status, bk) ==
    IF red.err
    THEN {[m |-> m, deps |-> after, err |-> "failed to redact install-config",
           panic |-> FALSE, templateData |-> NilObject,
           unmodelled |-> red.unmodelled]}
    ELSE IF bk.panic
    THEN {[m |-> [KubeSysConfig |-> ksc, FileList |-> <<File(kubeSysConfigPath, status.text)>>],
           deps |-> after, err |-> NoError, panic |-> TRUE,
           templateData |-> bk.templateData,
           unmodelled |-> red.unmodelled \/ status.unmodelled \/ bk.unmodelled]}
    ELSE {generated(ksc, after, red, status, bk,
                    mergedFiles(<<File(kubeSysConfigPath, status.text)>> \o bk.files, after))}

\* Lines 103-130 on the values computed so far: what redactedInstallConfig
\* returned, the status record ksc, its serialization, and what
\* generateBootKubeManifests gave.  A panic there leaves the asset as line
\* 115 set it.  The result is a set: one outcome for each list SortFiles
\* may leave.
generateFiles(m, after, red, ksc, status, bk) ==
    IF red.err
    THEN {[m |-> m, deps |-> after, err |-> "failed to redact install-config",
           panic |-> FALSE, templateData |-> NilObject,
           unmodelled |-> red.unmodelled]}
    ELSE IF bk.panic
    THEN {[m |-> [KubeSysConfig |-> ksc, FileList |-> <<File(kubeSysConfigPath, status.text)>>],
           deps |-> after, err |-> NoError, panic |-> TRUE,
           templateData |-> bk.templateData,
           unmodelled |-> red.unmodelled \/ status.unmodelled \/ bk.unmodelled]}
    ELSE {generated(ksc, after, red, status, bk, sorted) :
             sorted \in SortFiles(mergedFiles(<<File(kubeSysConfigPath, status.text)>>
                                                  \o bk.files, after))}

\* Lines 107-121: the status record, its serialization (which has no failing
\* case for this type) and the templated files.
generateStatus(m, after, red, ksc) ==
    generateFiles(m, after, red, ksc, marshalConfigurationObject(ksc),
                  generateBootKubeManifests(after.config, after.clusterID, after.tls,
                                            after.bootkube))

\* Lines 102-109: red is what redactedInstallConfig returned.
generateRedacted(m, deps, red) ==
    generateStatus(m, [deps EXCEPT !.config = red.config, !.heap = red.heap], red,
                   configMap(<<"k","u","b","e","-","s","y","s","t","e","m">>, <<"c","l","u","s","t","e","r","-","c","o","n","f","i","g","-","v","1">>,
                             (<<"i","n","s","t","a","l","l","-","c","o","n","f","i","g">> :> red.data)))

\* Manifests.Generate: its possible outcomes.  Each is the asset and the
\* dependencies as the call leaves them, the error returned, and whether the
\* call panicked instead of returning; unmodelled says the call met
\* something that is not followed here, and the rest of the outcome then
\* says nothing.
GenerateResult(m, deps) ==
    generateRedacted(m, deps, redactedInstallConfig(deps.config, deps.heap))

\* -------------------------------------------------------------------- Load
\* filepath.Match against manifests/*: the star matches any run of characters
\* other than the separator.
manifestPattern == filepathJoin(manifestDir, <<"*">>)

MatchesPattern(name) ==
    LET lit == SubSeq(manifestPattern, 1, Len(manifestPattern) - 1)
    IN  /\ HasPrefix(name, lit)
        /\ \A i \in (Len(lit) + 1)..Len(name) : name[i] # "/"

\* The sequences that list every element of a set once.
RECURSIVE Orderings(_)
Orderings(S) ==
    IF S = {} THEN {<<>>}
    ELSE UNION {{<<x>> \o rest : rest \in Orderings(S \ {x})} : x \in S}

\* FileFetcher.FetchByPattern: the directory's files whose path matches, in
\* an order the caller does not control.
FetchByPattern(dir) == Orderings({f \in dir : MatchesPattern(f.Filename)})

\* Lines 243-252: every fetched file named cluster-config.yaml is
\* unmarshalled, in list order, into one object (line 241); the first
\* failure returns.
Status(found, err, unmodelled, obj) ==
    [found |-> found, err |-> err, unmodelled |-> unmodelled, obj |-> obj]

RECURSIVE statusFrom(_, _)
statusOf(fileList, acc, parsed) ==
    IF parsed.err \/ parsed.unmodelled
    THEN Status(acc.found, parsed.err, parsed.unmodelled, parsed.obj)
    ELSE statusFrom(Tail(fileList), Status(TRUE, FALSE, FALSE, parsed.obj))

statusFrom(fileList, acc) ==
    IF fileList = <<>> THEN acc
    ELSE IF Head(fileList).Filename # kubeSysConfigPath THEN statusFrom(Tail(fileList), acc)
    ELSE statusOf(fileList, acc, yamlUnmarshal(Head(fileList).Data, acc.obj))

statusRecord(fileList) == statusFrom(fileList, Status(FALSE, FALSE, FALSE, ZeroObject))

UnmarshalError == "failed to unmarshal cluster-config.yaml"

loadDecide_AssignsEarly(m, fetchErr, fileList, status, sorted) ==
    IF fetchErr THEN [m |-> m, found |-> FALSE, err |-> "fetch"]
    ELSE IF Len(fileList) = 0 THEN [m |-> m, found |-> FALSE, err |-> NoError]
    ELSE IF status.err
        THEN [m |-> [KubeSysConfig |-> status.obj, FileList |-> sorted],
              found |-> FALSE, err |-> UnmarshalError]
    ELSE IF ~status.found
        THEN [m |-> [KubeSysConfig |-> status.obj, FileList |-> sorted],
              found |-> FALSE, err |-> NoError]
    ELSE [m |-> [KubeSysConfig |-> status.obj, FileList |-> sorted],
          found |-> TRUE, err |-> NoError]

loadDecide_SwallowsError(m, fetchErr, fileList, status, sorted) ==
    IF fetchErr THEN [m |-> m, found |-> FALSE, err |-> "fetch"]
    ELSE IF Len(fileList) = 0 THEN [m |-> m, found |-> FALSE, err |-> NoError]
    ELSE IF status.err \/ ~status.found THEN [m |-> m, found |-> FALSE, err |-> NoError]
    ELSE [m |-> [KubeSysConfig |-> status.obj, FileList |-> sorted],
          found |-> TRUE, err |-> NoError]

loadDecide_NoSort(m, fetchErr, fileList, status, sorted) ==
    IF fetchErr THEN [m |-> m, found |-> FALSE, err |-> "fetch"]
    ELSE IF Len(fileList) = 0 THEN [m |-> m, found |-> FALSE, err |-> NoError]
    ELSE IF status.err THEN [m |-> m, found |-> FALSE, err |-> UnmarshalError]
    ELSE IF ~status.found THEN [m |-> m, found |-> FALSE, err |-> NoError]
    ELSE [m |-> [KubeSysConfig |-> status.obj, FileList |-> fileList],
          found |-> TRUE, err |-> NoError]

\* Lines 236-263 on what FetchByPattern returned (its error, its files),
\* what the loop found, and the list as SortFiles leaves it (line 261).
loadDecide(m, fetchErr, fileList, status, sorted) ==
    IF fetchErr THEN [m |-> m, found |-> FALSE, err |-> "fetch"]
    ELSE IF Len(fileList) = 0 THEN [m |-> m, found |-> FALSE, err |-> NoError]
    ELSE IF status.err THEN [m |-> m, found |-> FALSE, err |-> UnmarshalError]
    ELSE IF ~status.found THEN [m |-> m, found |-> FALSE, err |-> NoError]
    ELSE [m |-> [KubeSysConfig |-> status.obj, FileList |-> sorted],
          found |-> TRUE, err |-> NoError]

\* Manifests.Load: its possible outcomes, one for each list SortFiles may
\* leave.  Each is the asset as the call leaves it, found and the error
\* returned; unmodelled says the status record's text is not followed here.
loadStatus(m, fetchErr, fileList, status) ==
    {loadDecide(m, fetchErr, fileList, status, sorted)
         @@ [unmodelled |-> ~fetchErr /\ status.unmodelled] :
        sorted \in SortFiles(fileList)}

LoadResult(m, fetchErr, fileList) ==
    loadStatus(m, fetchErr, fileList, statusRecord(fileList))

\* ------------------------------------------------------------------- state
VARIABLES
    deps,          \* the resolved parents: config, heap, clusterID, tls, template and fact files
    orig,          \* the base configuration and heap as first resolved
    m,             \* the Manifests asset: KubeSysConfig and FileList
    disk,          \* the asset directory: a set of files with distinct paths
    written,       \* the list the directory was last written from, while untouched since
    ret,           \* the last call: op, found, err, panic
    pre,           \* the asset before the last call
    fetched,       \* what FetchByPattern gave the last Load
    templateData,  \* the schema the last Generate bound
    indentCall     \* an indent call: its arguments, whether it panicked, its result

vars == <<deps, orig, m, disk, written, ret, pre, fetched, templateData, indentCall>>

\* ------------------------------------------------------------ input domains
CertKey(c, k) == [Cert |-> c, Key |-> k]

TheTLS ==
    [EtcdCA |-> CertKey(<<"c","a","\n","c","a","2","\n">>, <<"c","a","k">>),
     EtcdSignerCertKey |-> CertKey(<<"s","c">>, <<"s","k">>),
     EtcdCABundle |-> CertKey(<<"b","u","n","d","l","e">>, <<"b">>),
     EtcdSignerClientCertKey |-> CertKey(<<"s","c","c">>, <<"s","c","k">>),
     EtcdClientCertKey |-> CertKey(<<"c","c">>, <<"c","k">>),
     EtcdMetricCABundle |-> CertKey(<<"m","c","a">>, <<"m">>),
     EtcdMetricSignerClientCertKey |-> CertKey(<<"m","s","c">>, <<"m","s","k">>),
     MCSCertKey |-> CertKey(<<"m","c","s">>, <<"m","k">>),
     RootCA |-> CertKey(<<"r","o","o","t">>, <<"r","k">>)]

VSphereAddr == 1

VSphere(user, pass) == [VCenter |-> <<"v","c">>, Username |-> user, Password |-> pass]

Config(pullSecret, replicas, vsphere) ==
    [BaseDomain |-> <<"e","x",".","i","o">>, Name |-> <<"c","1">>, Replicas |-> replicas,
     VSphere |-> vsphere, PullSecret |-> pullSecret]

\* The files of the template producers, in the order of the list of lines
\* 193-212.  Each producer has a file of its own name, with or without a
\* directory and the ".template" suffix.  One binds a field the schema
\* lacks and one is never closed; the others call indent and add, pipe a
\* value into a function, range over the hostnames and trim the white space
\* around an action.
TemplateFiles ==
    <<File(<<"b","o","o","t","k","u","b","e","/","a",".","y","a","m","l",".","t","e","m","p","l","a","t","e">>,
           <<"i","d",":"," ","{","{",".","C","V","O","C","l","u","s","t","e","r","I","D","}","}","\n","n",":"," ","{","{","a","d","d"," ","1"," ","2","}","}","\n","c","a",":"," ","|","\n"," "," ","{","{",".","E","t","c","d","C","a","C","e","r","t"," ","|"," ","i","n","d","e","n","t"," ","2","}","}">>),
      File(<<"b",".","y","a","m","l",".","t","e","m","p","l","a","t","e">>, <<"x",":"," ","{","{",".","N","o","p","e","}","}","\n">>),
      File(<<"c",".","y","a","m","l",".","t","e","m","p","l","a","t","e">>, <<"x",":"," ","{","{",".","R","o","o","t","C","a","C","e","r","t","\n">>),
      File(<<"b","o","o","t","k","u","b","e","/","e",".","y","a","m","l",".","t","e","m","p","l","a","t","e">>,
           <<"e","t","c","d",":","\n","{","{","r","a","n","g","e"," ",".","E","t","c","d","E","n","d","p","o","i","n","t","H","o","s","t","n","a","m","e","s","}","}","-"," ","{","{",".","}","}","\n","{","{","e","n","d","}","}","n",":"," ","{","{","-"," ","l","e","n"," ",".","E","t","c","d","E","n","d","p","o","i","n","t","H","o","s","t","n","a","m","e","s","}","}","\n">>),
      File(<<"b","o","o","t","k","u","b","e","/","p",".","y","a","m","l">>, <<"p","u","l","l",":"," ","{","{",".","P","u","l","l","S","e","c","r","e","t","B","a","s","e","6","4","}","}","\n">>)>>

\* The files of the ingress, DNS, networking and infrastructure producers,
\* each with the producer it comes from, in the order of lines 123-126.
\* Every file lies in the manifests directory under a path of its own.
FactFiles ==
    <<<<"ingress", File(<<"m","a","n","i","f","e","s","t","s","/","i",".","y","m","l">>, <<"k","i","n","d",":"," ","I","\n">>)>>,
      <<"dns", File(<<"m","a","n","i","f","e","s","t","s","/","d",".","y","m","l">>, <<"k","i","n","d",":"," ","D","\n">>)>>,
      <<"network", File(<<"m","a","n","i","f","e","s","t","s","/","n","-","2",".","y","m","l">>, <<"k","i","n","d",":"," ","N","\n">>)>>,
      <<"network", File(<<"m","a","n","i","f","e","s","t","s","/","n","-","1",".","y","m","l">>, <<"k","i","n","d",":"," ","C","\n">>)>>,
      <<"infra", File(<<"m","a","n","i","f","e","s","t","s","/","f",".","y","m","l">>, <<"k","i","n","d",":"," ","F","\n">>)>>>>

RECURSIVE SeqsOfLen(_, _)
SeqsOfLen(S, n) ==
    IF n = 0 THEN {<<>>}
    ELSE {Append(s, x) : s \in SeqsOfLen(S, n - 1), x \in S}

SeqsUpTo(S, n) == UNION {SeqsOfLen(S, k) : k \in 0..n}

\* The elements of a list at the positions of a set, in the list's order.
RECURSIVE Chosen(_, _)
Chosen(list, at) ==
    IF list = <<>> THEN <<>>
    ELSE Chosen(SubSeq(list, 1, Len(list) - 1), at)
             \o (IF Len(list) \in at THEN <<list[Len(list)]>> ELSE <<>>)

\* The files a sequence of (producer, file) pairs gives one producer.
FilesOf(pairs, producer) ==
    LET mine == SelectSeq(pairs, LAMBDA p : p[1] = producer)
    IN  [i \in 1..Len(mine) |-> mine[i][2]]

Deps(config, heap, templates, pairs) ==
    [config |-> config, heap |-> heap, clusterID |-> <<"i","d","-","1">>, tls |-> TheTLS,
     bootkube |-> templates,
     ingress |-> FilesOf(pairs, "ingress"), dns |-> FilesOf(pairs, "dns"),
     network |-> FilesOf(pairs, "network"), infra |-> FilesOf(pairs, "infra")]

\* Every way for the producers to emit at most MaxFiles of these files.
FileInputs ==
    UNION {{<<Chosen(TemplateFiles, ts), Chosen(FactFiles, ps)>> :
               ps \in {p \in SUBSET (1..Len(FactFiles)) :
                          Cardinality(ts) + Cardinality(p) <= MaxFiles}}
           : ts \in SUBSET (1..Len(TemplateFiles))}

Secrets == {<<"t","o","k">>, <<"s","3","c","r">>}

Users == {<<"u","s","r">>, <<"a","d","m">>}

Passwords == {<<"p","w","1">>, <<"h","u","n","t">>}

\* The replica counts: from a negative one, for which line 164 panics, to
\* MaxReplicas.
Replicas == (0 - 1)..MaxReplicas

ConfigInputs ==
    {<<Config(ps, n, NilAddr), (VSphereAddr :> VSphere(<<>>, <<>>))>> :
        ps \in Secrets, n \in Replicas}
    \cup {<<Config(ps, n, VSphereAddr), (VSphereAddr :> VSphere(u, pw))>> :
        ps \in Secrets, n \in Replicas, u \in Users, pw \in Passwords}

NoCall == [op |-> "none", found |-> FALSE, err |-> NoError, panic |-> FALSE]

ZeroManifests == [KubeSysConfig |-> NilObject, FileList |-> <<>>]

NoIndent == [indention |-> 0, v |-> <<>>, done |-> FALSE, panic |-> FALSE, out |-> <<>>]

InitWith(d) ==
    /\ deps = d
    /\ orig = [config |-> d.config, heap |-> d.heap]
    /\ m = ZeroManifests
    /\ disk = {}
    /\ written = [valid |-> FALSE, files |-> <<>>]
    /\ ret = NoCall
    /\ pre = ZeroManifests
    /\ fetched = <<>>
    /\ templateData = NilObject
    /\ indentCall = NoIndent

\* The file lists vary, under one base configuration.
Init ==
    \E in \in FileInputs :
        InitWith(Deps(Config(<<"t","o","k">>, 3, VSphereAddr),
                      (VSphereAddr :> VSphere(<<"u","s","r">>, <<"p","w","1">>)), in[1], in[2]))

\* The base configuration varies, under one template and one fact file.
InitConfig ==
    \E in \in ConfigInputs :
        InitWith(Deps(in[1], in[2],
                      Chosen(TemplateFiles, {5}), Chosen(FactFiles, {2})))

\* ----------------------------------------------------------------- actions
Generate ==
    \E r \in GenerateResult(m, deps) :
        /\ ~r.unmodelled
        /\ m' = r.m
        /\ deps' = r.deps
        /\ ret' = [op |-> "Generate", found |-> FALSE, err |-> r.err, panic |-> r.panic]
        /\ pre' = m
        /\ fetched' = <<>>
        /\ templateData' = r.templateData
        /\ UNCHANGED <<orig, disk, written, indentCall>>

Succeeded(r) == r.err = NoError /\ ~r.panic

\* The store writes the files of a generated asset into the asset directory
\* (emptied first); a later file replaces an earlier one of the same path.
RECURSIVE WriteFiles(_, _)
WriteFiles(dir, files) ==
    IF files = <<>> THEN dir
    ELSE WriteFiles({f \in dir : f.Filename # Head(files).Filename} \cup {Head(files)},
                    Tail(files))

Persist ==
    /\ ret.op = "Generate" /\ Succeeded(ret)
    /\ disk' = WriteFiles({}, m.FileList)
    /\ written' = [valid |-> TRUE, files |-> m.FileList]
    /\ ret' = [NoCall EXCEPT !.op = "Persist"]
    /\ pre' = m
    /\ fetched' = <<>>
    /\ templateData' = NilObject
    /\ UNCHANGED <<deps, orig, m, indentCall>>

\* Someone edits the directory between runs: removes the status record,
\* overwrites it with text that does not deserialize (no mapping, or a data
\* entry that is no mapping) or with a hand-written record, or empties the
\* directory.
Tamper ==
    /\ \/ disk' = {f \in disk : f.Filename # kubeSysConfigPath}
       \/ disk' = WriteFiles(disk, <<File(kubeSysConfigPath, <<"k","i","n","d"," ","C","o","n","f","i","g","M","a","p","\n">>)>>)
       \/ disk' = WriteFiles(disk, <<File(kubeSysConfigPath, <<"d","a","t","a",":"," ","t","e","x","t","\n">>)>>)
       \/ disk' = WriteFiles(disk, <<File(kubeSysConfigPath,
                                          <<"#"," ","e","d","i","t","e","d","\n","k","i","n","d",":"," ","\"","C","o","n","f","i","g","M","a","p","\"","\n","d","a","t","a",":","\n"," "," "," "," ","k",":"," ","'","v","'","\n">>)>>)
       \/ disk' = {}
    /\ disk' # disk
    /\ written' = [valid |-> FALSE, files |-> <<>>]
    /\ ret' = [NoCall EXCEPT !.op = "Tamper"]
    /\ pre' = m
    /\ fetched' = <<>>
    /\ templateData' = NilObject
    /\ UNCHANGED <<deps, orig, m, indentCall>>

LoadWith(fetchErr, fileList) ==
    \E r \in LoadResult(m, fetchErr, fileList) :
        /\ ~r.unmodelled
        /\ m' = r.m
        /\ ret' = [op |-> "Load", found |-> r.found, err |-> r.err, panic |-> FALSE]
        /\ pre' = m
        /\ fetched' = fileList
        /\ templateData' = NilObject
        /\ UNCHANGED <<deps, orig, disk, written, indentCall>>

Load == \E fileList \in FetchByPattern(disk) : LoadWith(FALSE, fileList)

\* FetchByPattern itself fails (the directory cannot be read).
LoadFetchError == LoadWith(TRUE, <<>>)

Next == Generate \/ Persist \/ Tamper \/ Load \/ LoadFetchError

Spec == Init /\ [][Next]_vars

SpecConfig == InitConfig /\ [][Next]_vars

\* indent on its own: every width from -1 on and every short text of
\* letters, spaces and line breaks.
IndentTexts == SeqsUpTo({"a", "b", " ", "\n"}, MaxIndentLen)

InitIndent ==
    /\ InitWith(Deps(Config(<<"t","o","k">>, 3, NilAddr), (VSphereAddr :> VSphere(<<>>, <<>>)),
                     <<>>, <<>>))

CallIndent ==
    /\ ~indentCall.done
    /\ \E n \in (0 - 1)..MaxIndent, v \in IndentTexts :
           \E r \in {indent(n, v)} :
               indentCall' = [indention |-> n, v |-> v, done |-> TRUE,
                              panic |-> r.panic, out |-> r.out]
    /\ UNCHANGED <<deps, orig, m, disk, written, ret, pre, fetched, templateData>>

ResetIndent ==
    /\ indentCall.done
    /\ indentCall' = NoIndent
    /\ UNCHANGED <<deps, orig, m, disk, written, ret, pre, fetched, templateData>>

NextIndent == CallIndent \/ ResetIndent

SpecIndent == InitIndent /\ [][NextIndent]_vars

\* ------------------------------------------------------------------ claims
Names(files) == {files[i].Filename : i \in 1..Len(files)}

NoDupPaths(files) ==
    \A i, j \in 1..Len(files) : files[i].Filename = files[j].Filename => i = j

\* Non-descending by path.
Ascending(files) ==
    \A i, j \in 1..Len(files) : i < j => ~StrLess(files[j].Filename, files[i].Filename)

LoadReturned == ret.op = "Load" /\ ret.err # "fetch"

GenerateSucceeded == ret.op = "Generate" /\ Succeeded(ret)

\* C1: when the files FetchByPattern returned do not include
\* manifests/cluster-config.yaml (none at all, or some but not that one), Load
\* returns found = false with a nil error and leaves FileList and
\* KubeSysConfig as they were.
C1_LoadNotFoundLeavesAsset ==
    (LoadReturned /\ <<"m","a","n","i","f","e","s","t","s","/","c","l","u","s","t","e","r","-","c","o","n","f","i","g",".","y","a","m","l">> \notin Names(fetched))
        => (~ret.found /\ ret.err = NoError /\ m = pre)

C1_Witness ==
    /\ LoadReturned
    /\ fetched # <<>>
    /\ <<"m","a","n","i","f","e","s","t","s","/","c","l","u","s","t","e","r","-","c","o","n","f","i","g",".","y","a","m","l">> \notin Names(fetched)
    /\ pre.FileList # <<>>
    /\ ~ret.found /\ m = pre

\* C2: when the fetched files include the status record but its content does
\* not deserialize, Load returns an error with found = false (so no fallback
\* to Generate is signalled) and leaves FileList and KubeSysConfig unchanged.
C2_LoadMalformedIsError ==
    (LoadReturned
        /\ \E i \in 1..Len(fetched) :
               /\ fetched[i].Filename = <<"m","a","n","i","f","e","s","t","s","/","c","l","u","s","t","e","r","-","c","o","n","f","i","g",".","y","a","m","l">>
               /\ yamlUnmarshal(fetched[i].Data, ZeroObject).err)
        => (~ret.found /\ ret.err # NoError /\ m = pre)

C2_Witness ==
    /\ LoadReturned
    /\ \E i \in 1..Len(fetched) :
           /\ fetched[i].Filename = <<"m","a","n","i","f","e","s","t","s","/","c","l","u","s","t","e","r","-","c","o","n","f","i","g",".","y","a","m","l">>
           /\ fetched[i].Data = <<"k","i","n","d"," ","C","o","n","f","i","g","M","a","p","\n">>
    /\ Len(fetched) >= 2
    /\ pre.FileList # <<>>
    /\ ret.err # NoError /\ m = pre

\* A path directly inside manifests/: the directory, a separator, and one
\* more element.
InManifestDir(name) ==
    /\ Len(name) > 10
    /\ SubSeq(name, 1, 10) = <<"m","a","n","i","f","e","s","t","s","/">>
    /\ "/" \notin {name[i] : i \in 11..Len(name)}

LoadOfWritten == LoadReturned /\ written.valid

\* C3: every list a successful Generate produced, once written out
\* unmodified, is loaded back (found, no error) as the same list: the same
\* paths, the same content per path, in the same order, whatever order the
\* files are fetched in.  So every file of Generate's list is one the
\* manifest pattern matches.
C3_RoundTrip ==
    LoadOfWritten
        => /\ ret.found /\ ret.err = NoError
           /\ m.FileList = written.files
           /\ \A n \in Names(written.files) : MatchesPattern(n) /\ InManifestDir(n)

C3_Witness ==
    /\ LoadOfWritten
    /\ Len(written.files) >= 3
    /\ fetched # written.files
    /\ \E i \in 1..Len(written.files) :
           written.files[i].Filename # <<"m","a","n","i","f","e","s","t","s","/","c","l","u","s","t","e","r","-","c","o","n","f","i","g",".","y","a","m","l">>
    /\ ret.found /\ m.FileList = written.files

StatusFileData(files) ==
    (CHOOSE f \in {files[i] : i \in 1..Len(files)} :
         f.Filename = <<"m","a","n","i","f","e","s","t","s","/","c","l","u","s","t","e","r","-","c","o","n","f","i","g",".","y","a","m","l">>).Data

HasVSphere == orig.config.VSphere # NilAddr

\* C4: the status record Generate builds and serializes, and its
\* install-config entry, contain neither the pull secret nor, on vSphere, the
\* platform's username or password (secrets here are values that occur
\* nowhere else in the configuration).
C4_NoSecretInStatusRecord ==
    (ret.op = "Generate" /\ ret.err = NoError)
        => \A text \in {StatusFileData(m.FileList),
                        m.KubeSysConfig.Data[<<"i","n","s","t","a","l","l","-","c","o","n","f","i","g">>]} :
               /\ orig.config.PullSecret # <<>> => ~Contains(text, orig.config.PullSecret)
               /\ HasVSphere =>
                      /\ ~Contains(text, orig.heap[orig.config.VSphere].Username)
                      /\ ~Contains(text, orig.heap[orig.config.VSphere].Password)

C4_Witness ==
    /\ GenerateSucceeded
    /\ HasVSphere
    /\ orig.config.PullSecret = <<"s","3","c","r">>
    /\ orig.heap[orig.config.VSphere].Password = <<"h","u","n","t">>
    /\ Contains(StatusFileData(m.FileList), <<"p","a","s","s","w","o","r","d",":"," ","\"","\"">>)
    /\ Contains(StatusFileData(m.FileList), <<"v","C","e","n","t","e","r",":"," ","v","c">>)

\* C5: a Generate that fails returns an error to its caller and leaves no
\* partial file list behind.
C5_FailureReturnsErrorNoPartial ==
    (ret.op = "Generate" /\ ~Succeeded(ret))
        => (~ret.panic /\ ret.err # NoError /\ m.FileList = pre.FileList)

AssetReady == GenerateSucceeded \/ (LoadReturned /\ ret.found)

\* The arrangements of a list: one per permutation of its positions.
Arrangements(files) ==
    {[i \in 1..Len(files) |-> files[p[i]]] : p \in Orderings(1..Len(files))}

\* After a successful call the list is in ascending order by path, and the
\* order follows from the files alone: in whatever order the same files are
\* appended or fetched, sorting leaves this list and no other.
C6_Sorted ==
    AssetReady
        => /\ \A i \in 1..(Len(m.FileList) - 1) :
                  StrLess(m.FileList[i].Filename, m.FileList[i + 1].Filename)
           /\ \A p \in Arrangements(m.FileList) : SortFiles(p) = {m.FileList}

\* A Generate over the dependency states of an earlier successful Generate
\* yields the list that one yielded: the run before it, or the run whose
\* list was written to the directory, whatever the asset held in between
\* (nothing, a loaded list, or what a failed Load left).
C6_Repeatable ==
    (ret'.op = "Generate" /\ deps' = deps)
        => /\ GenerateSucceeded => (Succeeded(ret') /\ m'.FileList = m.FileList)
           /\ written.valid => (Succeeded(ret') /\ m'.FileList = written.files)

\* C6: after every successful Generate and every successful Load the list is
\* in ascending order by path, the order is a function of the files alone,
\* whatever order they were appended or fetched in, and two Generate runs
\* over identical dependency states yield identical lists.
C6_Order == []C6_Sorted /\ [][C6_Repeatable]_vars

C6_Witness ==
    /\ GenerateSucceeded
    /\ pre.FileList # <<>>
    /\ Len(m.FileList) >= 3
    /\ m.FileList[1].Filename # <<"m","a","n","i","f","e","s","t","s","/","c","l","u","s","t","e","r","-","c","o","n","f","i","g",".","y","a","m","l">>
    /\ deps.bootkube # <<>>
    /\ deps.dns # <<>>

\* The path a template file is meant to get: manifests/ and the file's last
\* element, less one trailing ".template".
LastElement(name) ==
    LET cut == {i \in 0..Len(name) : i = 0 \/ name[i] = "/"}
    IN  SubSeq(name, (CHOOSE i \in cut : \A j \in cut : j <= i) + 1, Len(name))

TargetPath(name) ==
    LET last == LastElement(name)
    IN  <<"m","a","n","i","f","e","s","t","s","/">> \o (IF Len(last) >= 9 /\ SubSeq(last, Len(last) - 8, Len(last)) = <<".","t","e","m","p","l","a","t","e">>
                          THEN SubSeq(last, 1, Len(last) - 9) ELSE last)

\* The paths Generate is handed, the status record's first.
InputPaths ==
    <<<<"m","a","n","i","f","e","s","t","s","/","c","l","u","s","t","e","r","-","c","o","n","f","i","g",".","y","a","m","l">>>>
        \o [i \in 1..Len(deps.bootkube) |-> TargetPath(deps.bootkube[i].Filename)]
        \o [i \in 1..Len(deps.ingress) |-> deps.ingress[i].Filename]
        \o [i \in 1..Len(deps.dns) |-> deps.dns[i].Filename]
        \o [i \in 1..Len(deps.network) |-> deps.network[i].Filename]
        \o [i \in 1..Len(deps.infra) |-> deps.infra[i].Filename]

\* C7: no two files of the list Generate produces have the same path, and
\* the paths are the status record's, each templated file's target path
\* (manifests/ and its base name less ".template") and the paths of the
\* files of the ingress, DNS, networking and infrastructure producers as
\* they emitted them, one entry for each.
C7_UniquePaths ==
    GenerateSucceeded
        => /\ NoDupPaths(m.FileList)
           /\ Names(m.FileList) = {InputPaths[i] : i \in 1..Len(InputPaths)}
           /\ Len(m.FileList) = Len(InputPaths)

C7_Witness ==
    /\ GenerateSucceeded
    /\ \E i \in 1..Len(deps.bootkube) :
           TargetPath(deps.bootkube[i].Filename) = <<"m","a","n","i","f","e","s","t","s","/","a",".","y","a","m","l">>
    /\ deps.ingress # <<>>
    /\ Len(m.FileList) = 3
    /\ NoDupPaths(m.FileList)

Hostnames == templateData.EtcdEndpointHostnames

\* C8: for a control plane of N >= 0 replicas the schema's hostname list has
\* exactly N entries, entry i (from 0) being "etcd-" followed by i in decimal;
\* for N = 3 it is etcd-0, etcd-1, etcd-2.  A negative number is no replica
\* count: the call panics before any schema is bound.
C8_EtcdHostnames ==
    (ret.op = "Generate" /\ ret.err = NoError)
        => IF orig.config.Replicas >= 0
           THEN /\ Len(Hostnames) = orig.config.Replicas
                /\ \A i \in 0..(orig.config.Replicas - 1) :
                       LET h == Hostnames[i + 1]
                           num == SubSeq(h, 6, Len(h))
                       IN  /\ SubSeq(h, 1, 5) = <<"e","t","c","d","-">>
                           /\ IsDigits(num)
                           /\ Len(num) > 1 => num[1] # "0"
                           /\ DigitsValue(num, 10) = i
                /\ orig.config.Replicas = 3
                       => Hostnames = <<<<"e","t","c","d","-","0">>, <<"e","t","c","d","-","1">>, <<"e","t","c","d","-","2">>>>
           ELSE ret.panic /\ templateData = NilObject

C8_Witness ==
    /\ GenerateSucceeded
    /\ orig.config.Replicas = 3
    /\ Hostnames = <<<<"e","t","c","d","-","0">>, <<"e","t","c","d","-","1">>, <<"e","t","c","d","-","2">>>>

CountOf(s, c) == Cardinality({i \in 1..Len(s) : s[i] = c})

\* C9: indent with width N (a count of spaces, so N >= 0) returns, and
\* puts exactly N spaces after every line break of its input and changes
\* nothing else: the first line is as it was, the number of line breaks is
\* the same, every later line is its original with N spaces in front; width
\* 2 on "a\nb" gives "a\n  b".  A negative number is no width: the call
\* panics.
C9_Indent ==
    indentCall.done
        => LET n == indentCall.indention
               before == SplitOn(indentCall.v, "\n")
               after == SplitOn(indentCall.out, "\n")
           IN  /\ indentCall.panic <=> n < 0
               /\ n >= 0 =>
                      /\ CountOf(indentCall.out, "\n") = CountOf(indentCall.v, "\n")
                      /\ Len(indentCall.out)
                             = Len(indentCall.v) + n * CountOf(indentCall.v, "\n")
                      /\ Len(after) = Len(before)
                      /\ after[1] = before[1]
                      /\ \A i \in 2..Len(before) : after[i] = Spaces(n) \o before[i]
                      /\ (n = 2 /\ indentCall.v = <<"a","\n","b">>) => indentCall.out = <<"a","\n"," "," ","b">>

C9_Witness ==
    /\ indentCall.done
    /\ ~indentCall.panic
    /\ indentCall.indention = 2
    /\ indentCall.v = <<"a","\n","b">>
    /\ indentCall.out = <<"a","\n"," "," ","b">>

\* C10: redaction works on a copy.  After Generate the base configuration
\* the producer holds is as it was resolved (pull secret, and the vSphere
\* username and password behind its pointer), and PullSecretBase64 in the
\* schema is the encoding of that pull secret, not of the empty string (a
\* schema is bound for every replica count that is one, N >= 0).
C10_RedactionOnCopy ==
    (ret.op = "Generate" /\ ret.err = NoError)
        => /\ deps.config = orig.config
           /\ deps.heap = orig.heap
           /\ orig.config.Replicas >= 0 =>
                  /\ templateData.PullSecretBase64 = base64Encode(orig.config.PullSecret)
                  /\ templateData.PullSecretBase64 # <<>>
                  /\ orig.config.PullSecret = <<"t","o","k">>
                         => templateData.PullSecretBase64 = <<"d","G","9","r">>

C10_Witness ==
    /\ GenerateSucceeded
    /\ HasVSphere
    /\ deps.heap[deps.config.VSphere].Password = <<"p","w","1">>
    /\ deps.config.PullSecret = <<"t","o","k">>
    /\ Contains(m.KubeSysConfig.Data[<<"i","n","s","t","a","l","l","-","c","o","n","f","i","g">>], <<"p","u","l","l","S","e","c","r","e","t",":"," ","\"","\"">>)
    /\ templateData.PullSecretBase64 = <<"d","G","9","r">>
====
